---- MODULE Spec2Model ----
(***************************************************************************)
(* A model of vibe-player's AI playlist curation engine: the library       *)
(* search index (LibrarySearch), the prompt builder and response parser    *)
(* (AIPromptBuilder), and the generation backends.                         *)
(*                                                                         *)
(* Conventions                                                             *)
(*   - A std::string is a tuple of one-character strings: <<"A","b">>.     *)
(*   - A std::optional<T> is a record [has |-> BOOLEAN, val |-> T].        *)
(*   - A std::vector is a TLA+ sequence; a C++ index i (0-based) is the    *)
(*     element i+1 of the sequence.  All indices stored in the state are   *)
(*     the C++ (0-based) ones.                                             *)
(*   - Each group of operations has its own specification (SpecSearch,     *)
(*     SpecPrompt, SpecParse, SpecBackend); the variables a specification  *)
(*     does not use keep their initial value.                              *)
(***************************************************************************)
EXTENDS Integers, Sequences, FiniteSets, TLC

VARIABLES
    library,          \* std::vector<TrackMetadata>: the library passed to the operation
    sampled_indices,  \* std::vector<size_t>: buildPrompt's output parameter / the parser's input
    response_text,    \* the model's answer text handed to the parser (a token sequence)
    op,               \* the operation that was called last and its arguments
    out,              \* what that operation returned
    be                \* one generate() call of a backend: its locals and position

vars == <<library, sampled_indices, response_text, op, out, be>>

-----------------------------------------------------------------------------
(* Bounds of the model *)

MaxLib == 3        \* longest library
MaxCap == 2        \* largest max_results / max_tracks_in_prompt given to an operation
MaxFree == 4       \* longest answer text drawn from every token sequence
MaxItems == 3      \* most numbers in an answer array wrapped in prose

-----------------------------------------------------------------------------
(* Strings and optionals *)

None == [has |-> FALSE, val |-> <<>>]
Some(v) == [has |-> TRUE, val |-> v]
NoYear == [has |-> FALSE, val |-> 0]

Min(a, b) == IF a <= b THEN a ELSE b

Upper == <<"A","B","C","D","E","F","G","H","I","J","K","L","M",
           "N","O","P","Q","R","S","T","U","V","W","X","Y","Z">>
Lower == <<"a","b","c","d","e","f","g","h","i","j","k","l","m",
           "n","o","p","q","r","s","t","u","v","w","x","y","z">>

\* std::tolower on one character
tolower(c) ==
    IF \E i \in 1..26 : Upper[i] = c
    THEN Lower[CHOOSE i \in 1..26 : Upper[i] = c]
    ELSE c

\* LibrarySearch::toLower
toLower(str) == [i \in 1..Len(str) |-> tolower(str[i])]

\* std::string::find(needle) != npos
Found(hay, needle) ==
    \E i \in 0..(Len(hay) - Len(needle)) :
        SubSeq(hay, i + 1, i + Len(needle)) = needle

\* A plausible slip: only the haystack is lower-cased.
containsIgnoreCase_needleAsIs(haystack, needle) ==
    Found(toLower(haystack), needle)

\* LibrarySearch::containsIgnoreCase
containsIgnoreCase(haystack, needle) ==
    LET hay_lower == toLower(haystack)
        needle_lower == toLower(needle)
    IN  Found(hay_lower, needle_lower)

-----------------------------------------------------------------------------
(* Library search index *)

EmptyResult == [track_indices |-> <<>>, total_matches |-> 0]

\* The first loop of every searchBy*: scan from 0 while fewer than
\* max_results indices were collected.  matches[i+1] is the search
\* predicate on library_[i].
RECURSIVE collectLoop(_, _, _, _)
collectLoop(matches, max_results, i, result) ==
    IF i < Len(matches) /\ Len(result.track_indices) < max_results
    THEN collectLoop(matches, max_results, i + 1,
            IF matches[i + 1]
            THEN [track_indices |-> Append(result.track_indices, i),
                  total_matches |-> result.total_matches + 1]
            ELSE result)
    ELSE result

\* The second loop of every searchBy*: "count remaining matches", from
\* i up to the end of the library.
RECURSIVE countLoop(_, _, _)
countLoop(matches, i, result) ==
    IF i < Len(matches)
    THEN countLoop(matches, i + 1,
            IF matches[i + 1]
            THEN [result EXCEPT !.total_matches = @ + 1]
            ELSE result)
    ELSE result

\* A plausible slip: the first loop tests `<=` and collects one index too many.
searchLoops_offByOne(matches, max_results) ==
    LET r == collectLoop(matches, max_results + 1, 0, EmptyResult)
    IN  IF Len(r.track_indices) >= max_results
        THEN countLoop(matches, Len(r.track_indices), r)
        ELSE r

\* The body shared by searchByArtist/Genre/Album/Title/YearRange: the
\* second loop starts at index track_indices.size().
searchLoops(matches, max_results) ==
    LET r == collectLoop(matches, max_results, 0, EmptyResult)
    IN  IF Len(r.track_indices) >= max_results
        THEN countLoop(matches, Len(r.track_indices), r)
        ELSE r

searchByArtist(lib, artist_query, max_results) ==
    searchLoops([i \in 1..Len(lib) |->
                    lib[i].artist.has /\ containsIgnoreCase(lib[i].artist.val, artist_query)],
                max_results)

searchByGenre(lib, genre_query, max_results) ==
    searchLoops([i \in 1..Len(lib) |->
                    lib[i].genre.has /\ containsIgnoreCase(lib[i].genre.val, genre_query)],
                max_results)

searchByAlbum(lib, album_query, max_results) ==
    searchLoops([i \in 1..Len(lib) |->
                    lib[i].album.has /\ containsIgnoreCase(lib[i].album.val, album_query)],
                max_results)

searchByTitle(lib, title_query, max_results) ==
    searchLoops([i \in 1..Len(lib) |->
                    lib[i].title.has /\ containsIgnoreCase(lib[i].title.val, title_query)],
                max_results)

searchByYearRange(lib, start_year, end_year, max_results) ==
    searchLoops([i \in 1..Len(lib) |->
                    lib[i].year.has /\ lib[i].year.val >= start_year
                                    /\ lib[i].year.val <= end_year],
                max_results)

\* The elements of a sequence, and a set of numbers as an ascending sequence
\* (iteration order of std::set<size_t>).
Range(s) == {s[i] : i \in 1..Len(s)}

RECURSIVE Ascending(_)
Ascending(S) ==
    IF S = {} THEN <<>>
    ELSE LET m == CHOOSE x \in S : \A y \in S : x <= y
         IN  <<m>> \o Ascending(S \ {m})

\* The elements of s that satisfy Keep, in order.
RECURSIVE keepIn(_, _)
keepIn(s, b_set) ==
    IF s = <<>> THEN <<>>
    ELSE (IF Head(s) \in b_set THEN <<Head(s)>> ELSE <<>>) \o keepIn(Tail(s), b_set)

\* A plausible slip: total_matches taken over from the first operand.
intersectResults_keepTotal(a, b) ==
    [track_indices |-> keepIn(a.track_indices, Range(b.track_indices)),
     total_matches |-> a.total_matches]

\* LibrarySearch::intersectResults
intersectResults(a, b) ==
    LET b_set == Range(b.track_indices)
        kept == keepIn(a.track_indices, b_set)
    IN  [track_indices |-> kept, total_matches |-> Len(kept)]

\* LibrarySearch::unionResults
unionResults(a, b) ==
    LET combined == Range(a.track_indices) \cup Range(b.track_indices)
        merged == Ascending(combined)
    IN  [track_indices |-> merged, total_matches |-> Len(merged)]

-----------------------------------------------------------------------------
(* Inputs of the search specification *)

Track(artist, title, album, genre, year) ==
    [artist |-> artist, title |-> title, album |-> album, genre |-> genre, year |-> year]

\* Tracks with present and absent fields, in mixed case.
SearchTracks ==
    { Track(None, None, None, None, NoYear),
      Track(Some(<<"A","b">>), None, Some(<<"b">>), Some(<<"a","B">>), Some(1970)),
      Track(Some(<<"b">>), Some(<<"a">>), None, Some(<<>>), Some(2000)),
      Track(Some(<<"a">>), Some(<<"B","a">>), Some(<<"A">>), None, NoYear) }

SeqsUpTo(S, n) == UNION {[1..k -> S] : k \in 0..n}

Queries == {<<>>, <<"a">>, <<"B">>, <<"a","b">>}
Years == {1969, 1970, 2000}

\* SearchResult values a caller can hand to intersectResults/unionResults
\* besides the ones the searches return.
GivenResults ==
    { [track_indices |-> <<>>, total_matches |-> 0],
      [track_indices |-> <<0>>, total_matches |-> 4],
      [track_indices |-> <<2, 0>>, total_matches |-> 2],
      [track_indices |-> <<1, 1>>, total_matches |-> 3],
      [track_indices |-> <<1, 2>>, total_matches |-> 7] }

ArtistResults(lib) ==
    {searchByArtist(lib, q, m) : q \in Queries, m \in 0..MaxCap}

NoOp == [name |-> "none"]
NoOut == [kind |-> "none"]
NoBackend == [kind |-> "none"]

FieldSearches == {"searchByArtist", "searchByGenre", "searchByAlbum", "searchByTitle"}

InitSearch ==
    /\ library \in SeqsUpTo(SearchTracks, MaxLib)
    /\ sampled_indices = <<>>
    /\ response_text = <<>>
    /\ op = NoOp
    /\ out = NoOut
    /\ be = NoBackend

Returned(name, args, result) ==
    /\ op' = [name |-> name, args |-> args]
    /\ out' = [kind |-> "SearchResult", result |-> result]
    /\ UNCHANGED <<library, sampled_indices, response_text, be>>

SearchByArtist ==
    /\ op.name = "none"
    /\ \E q \in Queries, m \in 0..MaxCap :
          Returned("searchByArtist", [query |-> q, max_results |-> m],
                   searchByArtist(library, q, m))

SearchByGenre ==
    /\ op.name = "none"
    /\ \E q \in Queries, m \in 0..MaxCap :
          Returned("searchByGenre", [query |-> q, max_results |-> m],
                   searchByGenre(library, q, m))

SearchByAlbum ==
    /\ op.name = "none"
    /\ \E q \in Queries, m \in 0..MaxCap :
          Returned("searchByAlbum", [query |-> q, max_results |-> m],
                   searchByAlbum(library, q, m))

SearchByTitle ==
    /\ op.name = "none"
    /\ \E q \in Queries, m \in 0..MaxCap :
          Returned("searchByTitle", [query |-> q, max_results |-> m],
                   searchByTitle(library, q, m))

SearchByYearRange ==
    /\ op.name = "none"
    /\ \E s \in Years, e \in Years, m \in 0..MaxCap :
          Returned("searchByYearRange",
                   [start_year |-> s, end_year |-> e, max_results |-> m],
                   searchByYearRange(library, s, e, m))

IntersectResults ==
    /\ op.name = "none"
    /\ \E a \in GivenResults \cup ArtistResults(library),
          b \in GivenResults \cup ArtistResults(library) :
          Returned("intersectResults", [a |-> a, b |-> b], intersectResults(a, b))

UnionResults ==
    /\ op.name = "none"
    /\ \E a \in GivenResults \cup ArtistResults(library),
          b \in GivenResults \cup ArtistResults(library) :
          Returned("unionResults", [a |-> a, b |-> b], unionResults(a, b))

NextSearch ==
    \/ SearchByArtist
    \/ SearchByGenre
    \/ SearchByAlbum
    \/ SearchByTitle
    \/ SearchByYearRange
    \/ IntersectResults
    \/ UnionResults

SpecSearch == InitSearch /\ [][NextSearch]_vars

-----------------------------------------------------------------------------
(* Prompt builder: the sampling of buildPrompt *)

\* The orders std::shuffle can leave all_indices = 0..n-1 in.
Shuffles(n) == {p \in [1..n -> 0..(n - 1)] : \A i, j \in 1..n : p[i] = p[j] => i = j}

\* std::sort on a vector of numbers (insertion into an ascending prefix).
RECURSIVE insertAscending(_, _)
insertAscending(sorted, x) ==
    IF sorted = <<>> THEN <<x>>
    ELSE IF x < Head(sorted) THEN <<x>> \o sorted
    ELSE <<Head(sorted)>> \o insertAscending(Tail(sorted), x)

RECURSIVE sortAscending(_)
sortAscending(s) ==
    IF s = <<>> THEN <<>>
    ELSE insertAscending(sortAscending(SubSeq(s, 1, Len(s) - 1)), s[Len(s)])

\* A plausible slip: the output vector is not cleared before it is filled.
buildPrompt_noClear(library_metadata, sampled_indices_out, max_tracks_in_prompt, shuffled) ==
    IF Len(library_metadata) <= max_tracks_in_prompt
    THEN sampled_indices_out \o [i \in 1..Len(library_metadata) |-> i - 1]
    ELSE sortAscending(SubSeq(shuffled, 1, max_tracks_in_prompt))

\* A plausible slip: the sample is left in shuffle order.
buildPrompt_noSort(library_metadata, sampled_indices_out, max_tracks_in_prompt, shuffled) ==
    IF Len(library_metadata) <= max_tracks_in_prompt
    THEN [i \in 1..Len(library_metadata) |-> i - 1]
    ELSE SubSeq(shuffled, 1, max_tracks_in_prompt)

\* AIPromptBuilder::buildPrompt, the value it leaves in sampled_indices_out.
\* sampled_indices_out is the vector's content on entry; shuffled is the
\* order std::shuffle produced.
buildPrompt(library_metadata, sampled_indices_out, max_tracks_in_prompt, shuffled) ==
    LET cleared == SubSeq(sampled_indices_out, 1, 0)
    IN  IF Len(library_metadata) <= max_tracks_in_prompt
        THEN cleared \o [i \in 1..Len(library_metadata) |-> i - 1]
        ELSE sortAscending(SubSeq(shuffled, 1, max_tracks_in_prompt))

\* The numbered rows of the prompt: row i shows library_metadata[sampled[i-1]].
promptRows(sampled) == [i \in 1..Len(sampled) |-> [row |-> i, index |-> sampled[i]]]

\* What a caller's vector may hold before the call.
PriorContents == {<<>>, <<7>>, <<2, 0>>}

InitPrompt ==
    /\ library \in SeqsUpTo(SearchTracks, MaxLib)
    /\ sampled_indices \in PriorContents
    /\ response_text = <<>>
    /\ op = NoOp
    /\ out = NoOut
    /\ be = NoBackend

BuildPrompt ==
    /\ op.name = "none"
    /\ \E max \in 0..MaxCap, shuffled \in Shuffles(Len(library)) :
          LET sampled == buildPrompt(library, sampled_indices, max, shuffled)
          IN  /\ sampled_indices' = sampled
              /\ op' = [name |-> "buildPrompt",
                        args |-> [max_tracks_in_prompt |-> max,
                                  sampled_indices_in |-> sampled_indices,
                                  shuffled |-> shuffled]]
              /\ out' = [kind |-> "prompt",
                         rows |-> promptRows(sampled),
                         sampling_note |-> Len(library) > max]
    /\ UNCHANGED <<library, response_text, be>>

NextPrompt == BuildPrompt

SpecPrompt == InitPrompt /\ [][NextPrompt]_vars

-----------------------------------------------------------------------------
(* Response parser: AIPromptBuilder::parseJsonResponse *)

(* The answer text is a sequence of lexical tokens [t, hi, lo]:             *)
(*   "lbr" '['   "rbr" ']'   "comma" ','   "word" a word of prose           *)
(*   "float" a JSON number with a fraction    "int" a JSON integer.         *)
(* A JSON integer is held in two limbs, value = hi * 2^16 + lo with         *)
(* 0 <= lo < 2^16, so that values beyond 32 bits can be written.            *)
Limb == 65536

Tok(t) == [t |-> t, hi |-> 0, lo |-> 0]
LBR == Tok("lbr")
RBR == Tok("rbr")
COMMA == Tok("comma")
WORD == Tok("word")
FLOAT == Tok("float")
Num(hi, lo) == [t |-> "int", hi |-> hi, lo |-> lo]
IntTok(n) == Num(0, n)       \* 0 <= n < 2^16
MinusOne == Num(-1, Limb - 1)
TwoTo32Plus1 == Num(Limb, 1)
TwoTo31 == Num(Limb \div 2, 0)

\* std::string::find('[') and rfind(']') as 1-based positions, 0 for npos.
findFirst(text, tok) ==
    IF \E i \in 1..Len(text) : text[i] = tok
    THEN CHOOSE i \in 1..Len(text) : text[i] = tok /\ \A j \in 1..(i - 1) : text[j] # tok
    ELSE 0

findLast(text, tok) ==
    IF \E i \in 1..Len(text) : text[i] = tok
    THEN CHOOSE i \in 1..Len(text) : text[i] = tok /\ \A j \in (i + 1)..Len(text) : text[j] # tok
    ELSE 0

(* nlohmann json::parse on a token sequence.  A value is a number or an    *)
(* array of values; a word of prose is no JSON value.  The result of       *)
(* parsing a value at position i is [ok, next, val]; an array's val        *)
(* carries its elements, each [k, hi, lo] with k "int", "float" or         *)
(* "array".                                                                *)
ParseFail == [ok |-> FALSE, next |-> 0, k |-> "none", hi |-> 0, lo |-> 0, elems |-> <<>>]

RECURSIVE parseValue(_, _)
RECURSIVE parseElements(_, _, _)

parseValue(toks, i) ==
    IF i > Len(toks) THEN ParseFail
    ELSE CASE toks[i].t = "int" ->
                [ok |-> TRUE, next |-> i + 1, k |-> "int",
                 hi |-> toks[i].hi, lo |-> toks[i].lo, elems |-> <<>>]
           [] toks[i].t = "float" ->
                [ok |-> TRUE, next |-> i + 1, k |-> "float", hi |-> 0, lo |-> 0, elems |-> <<>>]
           [] toks[i].t = "lbr" ->
                IF i + 1 <= Len(toks) /\ toks[i + 1].t = "rbr"
                THEN [ok |-> TRUE, next |-> i + 2, k |-> "array",
                      hi |-> 0, lo |-> 0, elems |-> <<>>]
                ELSE parseElements(toks, i + 1, <<>>)
           [] OTHER -> ParseFail

\* after '[' or ',': a value, then ',' or ']'
parseElements(toks, i, elems) ==
    LET v == parseValue(toks, i)
        e == [k |-> v.k, hi |-> v.hi, lo |-> v.lo]
    IN  IF ~v.ok \/ v.next > Len(toks) THEN ParseFail
        ELSE CASE toks[v.next].t = "comma" -> parseElements(toks, v.next + 1, Append(elems, e))
               [] toks[v.next].t = "rbr" ->
                    [ok |-> TRUE, next |-> v.next + 1, k |-> "array",
                     hi |-> 0, lo |-> 0, elems |-> Append(elems, e)]
               [] OTHER -> ParseFail

\* json::parse: one value and nothing after it; a failure is the
\* json::parse_error the call throws.
jsonParse(toks) ==
    LET v == parseValue(toks, 1)
    IN  IF v.ok /\ v.next = Len(toks) + 1 THEN v ELSE ParseFail

\* basic_json::get<int>(): the stored 64-bit integer narrowed to 32 bits
\* (two's complement).
getInt(e) ==
    LET h == e.hi % Limb
    IN  (IF h >= Limb \div 2 THEN h - Limb ELSE h) * Limb + e.lo

\* get<int>() returned INT_MIN
isIntMin(e) == e.hi % Limb = Limb \div 2 /\ e.lo = 0

\* `int sampled_idx = idx.get<int>() - 1` followed by the range test
\* `sampled_idx >= 0 && sampled_idx < (int)sampled_indices.size()`.
\* INT_MIN - 1 overflows, which is undefined: a build either wraps to
\* INT_MAX or keeps the mathematical value; the test fails in both.
rowInRange(e, size) ==
    IF isIntMin(e) THEN FALSE
    ELSE getInt(e) - 1 >= 0 /\ getInt(e) - 1 < size

\* std::to_string(size_t): the decimal digits
Digits == <<"0","1","2","3","4","5","6","7","8","9">>

RECURSIVE to_string(_)
to_string(n) ==
    IF n < 10 THEN <<Digits[n + 1]>>
    ELSE to_string(n \div 10) \o <<Digits[(n % 10) + 1]>>

\* the loop over the parsed array
RECURSIVE mapRows(_, _)
mapRows(elems, sampled) ==
    IF elems = <<>> THEN <<>>
    ELSE LET idx == Head(elems)
         IN  (IF idx.k = "int" /\ rowInRange(idx, Len(sampled))
              THEN <<to_string(sampled[(getInt(idx) - 1) + 1])>>
              ELSE <<>>)
             \o mapRows(Tail(elems), sampled)

\* The body of the try block: the playlist returned, or the exception thrown.
parseBody(text, sampled) ==
    LET start == findFirst(text, LBR)
        end == findLast(text, RBR)
        json_array_str == SubSeq(text, start, end)
        song_indices == jsonParse(json_array_str)
    IN  IF start = 0 \/ end = 0 \/ start >= end
        THEN [threw |-> FALSE, playlist |-> <<>>]
        ELSE IF ~song_indices.ok
        THEN [threw |-> TRUE, playlist |-> <<>>]
        ELSE IF song_indices.k # "array"
        THEN [threw |-> FALSE, playlist |-> <<>>]
        ELSE [threw |-> FALSE, playlist |-> mapRows(song_indices.elems, sampled)]

\* A plausible slip: no catch around the parse, the exception escapes.
parseJsonResponse_noCatch(text, sampled) ==
    parseBody(text, sampled)

\* AIPromptBuilder::parseJsonResponse: catch (std::exception) returns {}.
parseJsonResponse(text, sampled) ==
    LET r == parseBody(text, sampled)
    IN  IF r.threw THEN [threw |-> FALSE, playlist |-> <<>>] ELSE r

\* Inputs of the parser specification: every short token sequence, and
\* arrays of up to MaxItems numbers wrapped in prose.
FreeAlphabet == {LBR, RBR, COMMA, WORD, IntTok(1), IntTok(2)}
FreeTexts == SeqsUpTo(FreeAlphabet, MaxFree)

Items == {IntTok(0), IntTok(1), IntTok(2), IntTok(3),
          MinusOne, TwoTo32Plus1, TwoTo31, FLOAT}

RECURSIVE commaSeparated(_)
commaSeparated(items) ==
    IF Len(items) <= 1 THEN items
    ELSE <<Head(items), COMMA>> \o commaSeparated(Tail(items))

ArrayText(items) == <<LBR>> \o commaSeparated(items) \o <<RBR>>

ProseBefore == {<<>>, <<WORD>>, <<WORD, RBR>>, <<LBR, RBR, WORD>>}
ProseAfter == {<<>>, <<WORD>>, <<LBR, WORD>>}

WrappedArrays ==
    {pre \o ArrayText(items) \o post :
        pre \in ProseBefore, items \in SeqsUpTo(Items, MaxItems), post \in ProseAfter}

SampledPool == {<<>>, <<4>>, <<1, 12>>}

InitParse ==
    /\ library = <<>>
    /\ sampled_indices \in SampledPool
    /\ response_text \in FreeTexts \cup WrappedArrays
    /\ op = NoOp
    /\ out = NoOut
    /\ be = NoBackend

ParseJsonResponse ==
    /\ op.name = "none"
    /\ op' = [name |-> "parseJsonResponse"]
    /\ out' = [kind |-> "playlist"] @@ parseJsonResponse(response_text, sampled_indices)
    /\ UNCHANGED <<library, sampled_indices, response_text, be>>

NextParse == ParseJsonResponse

SpecParse == InitParse /\ [][NextParse]_vars

-----------------------------------------------------------------------------
(* Keyword backend *)

isalnum(c) == (\E i \in 1..26 : Upper[i] = c \/ Lower[i] = c) \/ (\E i \in 1..10 : Digits[i] = c)
\* std::isspace in the "C" locale: space, \t, \n, \v, \f, \r
VerticalTab == ""
isspace(c) == c \in {" ", "\t", "\n", VerticalTab, "\f", "\r"}

\* KeywordBackend::normalizeText
normalizeText(text) ==
    [i \in 1..Len(text) |->
        IF isalnum(text[i]) \/ isspace(text[i]) THEN tolower(text[i]) ELSE " "]

\* `while (stream >> word)`: the whitespace-separated words of a text, in order
RECURSIVE splitWords(_, _, _)
splitWords(text, word, words) ==
    IF text = <<>>
    THEN (IF word = <<>> THEN words ELSE Append(words, word))
    ELSE IF isspace(Head(text))
    THEN splitWords(Tail(text), <<>>, IF word = <<>> THEN words ELSE Append(words, word))
    ELSE splitWords(Tail(text), Append(word, Head(text)), words)

stop_words ==
    { <<"a">>, <<"a","n">>, <<"a","n","d">>, <<"a","r","e">>, <<"a","s">>,
      <<"a","t">>, <<"b","e">>, <<"b","y">>, <<"f","o","r">>,
      <<"f","r","o","m">>, <<"h","a","s">>, <<"h","e">>, <<"i","n">>,
      <<"i","s">>, <<"i","t">>, <<"i","t","s">>, <<"o","f">>, <<"o","n">>,
      <<"t","h","a","t">>, <<"t","h","e">>, <<"t","o">>, <<"w","a","s">>,
      <<"w","i","l","l">>, <<"w","i","t","h">>, <<"s","o","n","g","s">>,
      <<"m","u","s","i","c">>, <<"t","r","a","c","k","s">>,
      <<"p","l","a","y","l","i","s","t">> }

\* KeywordBackend::extractKeywords
extractKeywords(text) ==
    LET normalized == normalizeText(text)
        words == splitWords(normalized, <<>>, <<>>)
    IN  {words[i] : i \in {j \in 1..Len(words) :
                              Len(words[j]) >= 2 /\ words[j] \notin stop_words}}

\* std::stoi / std::stoull on a string of decimal digits
RECURSIVE stoi(_)
stoi(str) ==
    IF str = <<>> THEN 0
    ELSE 10 * stoi(SubSeq(str, 1, Len(str) - 1))
         + (CHOOSE d \in 0..9 : Digits[d + 1] = str[Len(str)])

RecentWords == {<<"r","e","c","e","n","t">>, <<"n","e","w">>, <<"m","o","d","e","r","n">>}
ClassicWords == {<<"c","l","a","s","s","i","c">>, <<"o","l","d">>, <<"v","i","n","t","a","g","e">>}
RecentFrom == 2015
ClassicUntil == 1990

\* KeywordBackend::matchesYear
matchesYear(keyword, year) ==
    IF year = <<>> THEN FALSE
    ELSE IF keyword = year THEN TRUE
    ELSE IF /\ Len(keyword) = 3 /\ keyword[2] = "0" /\ keyword[3] = "s"
            /\ Len(year) >= 3 /\ year[3] = keyword[1]
    THEN TRUE
    ELSE IF keyword \in RecentWords THEN stoi(year) >= RecentFrom
    ELSE IF keyword \in ClassicWords THEN stoi(year) <= ClassicUntil
    ELSE FALSE

ArtistWeight == 5
GenreWeight == 4
AlbumWeight == 2
TitleWeight == 2
YearWeight == 3

valueOrEmpty(field) == IF field.has THEN field.val ELSE <<>>

keywordScore_penalty(track, keyword) ==
    IF Found(normalizeText(valueOrEmpty(track.artist)), keyword)
    THEN ArtistWeight
    ELSE 0 - 1

\* what one keyword adds to a track's score
keywordScore(track, keyword) ==
    LET artist == normalizeText(valueOrEmpty(track.artist))
        title == normalizeText(valueOrEmpty(track.title))
        album == normalizeText(valueOrEmpty(track.album))
        genre == normalizeText(valueOrEmpty(track.genre))
        year == IF track.year.has THEN to_string(track.year.val) ELSE <<>>
    IN    (IF Found(artist, keyword) THEN ArtistWeight ELSE 0)
        + (IF Found(genre, keyword) THEN GenreWeight ELSE 0)
        + (IF Found(album, keyword) THEN AlbumWeight ELSE 0)
        + (IF Found(title, keyword) THEN TitleWeight ELSE 0)
        + (IF matchesYear(keyword, year) THEN YearWeight ELSE 0)

\* KeywordBackend::scoreTrack: the sum over the keywords
RECURSIVE scoreTrack(_, _)
scoreTrack(track, keywords) ==
    IF keywords = {} THEN 0
    ELSE LET keyword == CHOOSE k \in keywords : TRUE
         IN  keywordScore(track, keyword) + scoreTrack(track, keywords \ {keyword})

\* the scoring loop of generate: the tracks above min_score, in library order
RECURSIVE scoreAll(_, _, _, _)
scoreAll(library_metadata, keywords, min_score, i) ==
    IF i >= Len(library_metadata) THEN <<>>
    ELSE LET score == scoreTrack(library_metadata[i + 1], keywords)
         IN  (IF score > min_score THEN <<[index |-> i, score |-> score]>> ELSE <<>>)
             \o scoreAll(library_metadata, keywords, min_score, i + 1)

\* The orders std::sort may leave scored_tracks in under the comparison
\* a.score > b.score: every arrangement with the scores descending (the
\* order of tracks with equal scores is unspecified).
SortOutcomes(scored_tracks) ==
    {[i \in 1..Len(scored_tracks) |-> scored_tracks[p[i] + 1]] :
        p \in {q \in Shuffles(Len(scored_tracks)) :
                  \A i \in 1..(Len(scored_tracks) - 1) :
                      scored_tracks[q[i] + 1].score >= scored_tracks[q[i + 1] + 1].score}}

Failure == [status |-> "failure", playlist |-> <<>>]
Success(playlist) == [status |-> "success", playlist |-> playlist]
Escaped == [status |-> "exception", playlist |-> <<>>]
NoResult == [status |-> "none", playlist |-> <<>>]

keywordGenerate_noKeywordTest(user_prompt, library_metadata, max_results, min_score) ==
    LET keywords == extractKeywords(user_prompt)
        scored_tracks == scoreAll(library_metadata, keywords, min_score, 0)
    IN  IF library_metadata = <<>> THEN {Failure}
        ELSE IF scored_tracks = <<>> THEN {Failure}
        ELSE {Success([i \in 1..Min(Len(sorted), max_results) |-> to_string(sorted[i].index)]) :
                 sorted \in SortOutcomes(scored_tracks)}

\* KeywordBackend::generate's outcomes: std::nullopt or the playlist, for
\* each order the sort may produce.
keywordGenerate(user_prompt, library_metadata, max_results, min_score) ==
    LET keywords == extractKeywords(user_prompt)
        scored_tracks == scoreAll(library_metadata, keywords, min_score, 0)
    IN  IF library_metadata = <<>> THEN {Failure}
        ELSE IF keywords = {} THEN {Failure}
        ELSE IF scored_tracks = <<>> THEN {Failure}
        ELSE {Success([i \in 1..Min(Len(sorted), max_results) |-> to_string(sorted[i].index)]) :
                 sorted \in SortOutcomes(scored_tracks)}

-----------------------------------------------------------------------------
(* Generation backends: one generate() call *)

(* be is the call: kind names the backend ("keyword", "singleshot",        *)
(* "llama", "openai", "anthropic"), pc the position in generate(),         *)
(* result what generate() returned: status "success" with the playlist,    *)
(* "failure" for std::nullopt, "exception" when an exception left          *)
(* generate(), "none" while the call runs.  requests counts the calls of   *)
(* client.Post, last is what the latest of them came back with, executed   *)
(* lists the calls of executeToolCall (name and arguments), and did names  *)
(* what the call has gone through so far: "buildPrompt", "request",        *)
(* "generateText", "extractKeywords".                                      *)
BackendCall(kind, user_prompt, max_results, min_score) ==
    [kind |-> kind, pc |-> "start", user_prompt |-> user_prompt,
     max_results |-> max_results, min_score |-> min_score,
     attempt |-> 0, turn |-> 0, requests |-> 0, messages |-> <<>>,
     last |-> "none", executed |-> <<>>, did |-> {}, carried |-> <<>>,
     result |-> NoResult]

Returns(result) == [be EXCEPT !.pc = "done", !.result = result]

\* all_indices after std::iota, and after the shuffle when one takes place
Iota(n) == [i \in 1..n |-> i - 1]
ShufflesIfSampled(n, max_tracks_in_prompt) ==
    IF n > max_tracks_in_prompt THEN Shuffles(n) ELSE {Iota(n)}

\* Requests and answers the backends are run on.
KeywordPrompts == {<<"A","b"," ","o","l","d">>,
                   <<"o","l","d","\t","z","z">>,
                   <<"t","h","e"," ","a","!">>,
                   <<"z","z">>,
                   <<"7","0","s">>}
MinScores == {-1, 0, 5}
Request == <<"r","o","c","k">>

AnswerTexts ==
    { <<WORD>>,
      <<LBR, RBR>>,
      <<LBR, IntTok(1), RBR>>,
      <<WORD, LBR, IntTok(2), COMMA, IntTok(1), RBR, WORD>>,
      <<LBR, IntTok(0), RBR>>,
      <<LBR, IntTok(9), RBR>>,
      <<LBR, WORD, RBR>>,
      <<LBR, TwoTo32Plus1, RBR>>,
      <<LBR, FLOAT, COMMA, MinusOne, RBR>>,
      <<LBR, MinusOne, COMMA, IntTok(1), COMMA, FLOAT, COMMA, IntTok(9), COMMA,
        TwoTo32Plus1, COMMA, IntTok(0), RBR>> }

InitBackend ==
    /\ library \in SeqsUpTo(SearchTracks, MaxLib)
    /\ sampled_indices = <<>>
    /\ response_text = <<>>
    /\ op = NoOp
    /\ out = NoOut
    /\ be \in {BackendCall("keyword", p, m, s) :
                  p \in KeywordPrompts, m \in 0..MaxCap, s \in MinScores}
              \cup {BackendCall(k, Request, 0, 0) :
                  k \in {"singleshot", "llama", "openai", "anthropic"}}

\* KeywordBackend::generate
KeywordGenerate ==
    /\ be.kind = "keyword" /\ be.pc = "start"
    /\ \E result \in keywordGenerate(be.user_prompt, library, be.max_results, be.min_score) :
          be' = [Returns(result) EXCEPT
                    !.did = IF library = <<>> THEN @ ELSE @ \cup {"extractKeywords"}]
    /\ UNCHANGED <<library, sampled_indices, response_text, op, out>>

(* Single-shot remote backend (ClaudeBackend of src/src) *)
ClaudeMaxTracks == 1500
Retries_two == 1 + 1
Retries == 1

UserMessage(content) == [role |-> "user", content |-> content]

\* generate() up to the retry loop: the empty-library test, the prompt
\* and the request body
SingleShotStart ==
    /\ be.kind = "singleshot" /\ be.pc = "start"
    /\ IF library = <<>>
       THEN be' = Returns(Failure) /\ UNCHANGED sampled_indices
       ELSE \E shuffled \in ShufflesIfSampled(Len(library), ClaudeMaxTracks) :
               LET sampled == buildPrompt(library, <<>>, ClaudeMaxTracks, shuffled)
               IN  /\ sampled_indices' = sampled
                   /\ be' = [be EXCEPT !.pc = "attempt",
                                       !.did = @ \cup {"buildPrompt"},
                                       !.messages = <<UserMessage(promptRows(sampled))>>]
    /\ UNCHANGED <<library, response_text, op, out>>

\* What client.Post can come back with: no response, a status other than
\* 200, or status 200 with a body that is not JSON, has no content array,
\* has a first content block without text, or carries the answer text.
Response(kind, text) == [kind |-> kind, text |-> text]
SingleShotResponses ==
    {Response(k, <<>>) : k \in {"no_response", "http_error", "bad_json", "no_content", "no_text"}}
    \cup {Response("text", t) : t \in AnswerTexts}

\* the handling of a status-200 response
singleShotAnswer(resp, sampled) ==
    LET playlist == parseJsonResponse(resp.text, sampled).playlist
    IN  IF resp.kind \in {"bad_json", "no_content", "no_text"} THEN Failure
        ELSE IF playlist # <<>> THEN Success(playlist)
        ELSE Failure

\* one pass of the retry loop
SingleShotAttempt ==
    /\ be.kind = "singleshot" /\ be.pc = "attempt"
    /\ \E resp \in SingleShotResponses :
          /\ response_text' = resp.text
          /\ be' = [(IF resp.kind \notin {"no_response", "http_error"}
                     THEN Returns(singleShotAnswer(resp, sampled_indices))
                     ELSE IF be.attempt < Retries
                     THEN [be EXCEPT !.attempt = @ + 1]
                     ELSE [Returns(Failure) EXCEPT !.attempt = @ + 1])
                    EXCEPT !.requests = @ + 1, !.last = resp.kind,
                           !.did = @ \cup {"request"}]
    /\ UNCHANGED <<library, sampled_indices, op, out>>

(* Local-model backend *)
LlamaMaxTracks == 50

\* generate() up to the call of generateText
LlamaStart ==
    /\ be.kind = "llama" /\ be.pc = "start"
    /\ IF library = <<>>
       THEN be' = Returns(Failure) /\ UNCHANGED sampled_indices
       ELSE \E shuffled \in ShufflesIfSampled(Len(library), LlamaMaxTracks) :
               /\ sampled_indices' = buildPrompt(library, <<>>, LlamaMaxTracks, shuffled)
               /\ be' = [be EXCEPT !.pc = "generate", !.did = @ \cup {"buildPrompt"}]
    /\ UNCHANGED <<library, response_text, op, out>>

\* generateText ends with an exception, with "" (the model could not be
\* initialised, the prompt not tokenised, not fitted or not decoded), or
\* with the text generated so far, which may be empty.
GenerateTextOutcomes ==
    {Response("exception", <<>>), Response("empty", <<>>)}
    \cup {Response("text", t) : t \in AnswerTexts \cup {<<>>}}

llamaAnswer(outcome, sampled) ==
    LET playlist == parseJsonResponse(outcome.text, sampled).playlist
    IN  IF outcome.kind = "exception" THEN Failure
        ELSE IF outcome.text = <<>> THEN Failure
        ELSE IF playlist = <<>> THEN Failure
        ELSE Success(playlist)

\* the rest of generate(): generateText, then the parser
LlamaGenerateText ==
    /\ be.kind = "llama" /\ be.pc = "generate"
    /\ \E outcome \in GenerateTextOutcomes :
          /\ response_text' = outcome.text
          /\ be' = [Returns(llamaAnswer(outcome, sampled_indices))
                    EXCEPT !.last = outcome.kind, !.did = @ \cup {"generateText"}]
    /\ UNCHANGED <<library, sampled_indices, op, out>>

(* Tool-calling backends (ChatGPTBackend and ClaudeBackend of src/list) *)
MAX_TURNS == 10
DefaultMaxResults == 100
SampleLimit == 20
OverviewFromYear == 1900
OverviewToYear == 2100
OverviewCap == 999999

\* Byte order of the characters in use, as std::string compares them.
Ascii == <<" ", "!">> \o Digits \o Upper \o Lower
charCode(c) == CHOOSE i \in 1..Len(Ascii) : Ascii[i] = c

\* operator< of std::string
RECURSIVE stringLess(_, _)
stringLess(a, b) ==
    IF b = <<>> THEN FALSE
    ELSE IF a = <<>> THEN TRUE
    ELSE IF Head(a) # Head(b) THEN charCode(Head(a)) < charCode(Head(b))
    ELSE stringLess(Tail(a), Tail(b))

\* the contents of a std::set<std::string>, in iteration order
RECURSIVE sortedStrings(_)
sortedStrings(S) ==
    IF S = {} THEN <<>>
    ELSE LET least == CHOOSE s \in S : \A t \in S \ {s} : stringLess(s, t)
         IN  <<least>> \o sortedStrings(S \ {least})

getUniqueArtists(lib) ==
    sortedStrings({lib[i].artist.val : i \in {j \in 1..Len(lib) : lib[j].artist.has}})
getUniqueGenres(lib) ==
    sortedStrings({lib[i].genre.val : i \in {j \in 1..Len(lib) : lib[j].genre.has}})
getUniqueAlbums(lib) ==
    sortedStrings({lib[i].album.val : i \in {j \in 1..Len(lib) : lib[j].album.has}})

\* A tool's arguments: a JSON object, every key of the tool schemas mapped
\* to a string, a number, or to Absent when the object lacks the key.
ArgKeys == {"artist_name", "genre", "album_name", "title",
            "start_year", "end_year", "max_results"}
Absent == [type |-> "absent", s |-> <<>>, n |-> 0]
Str(s) == [type |-> "string", s |-> s, n |-> 0]
Number(n) == [type |-> "number", s |-> <<>>, n |-> n]
NoArgs == [k \in ArgKeys |-> Absent]

\* `T x = arguments[key]` on a const json: reading a missing key is
\* undefined, a value of another type throws json::type_error.
readArg(args, key, type) ==
    IF args[key].type = "absent" THEN "undefined"
    ELSE IF args[key].type # type THEN "type_error"
    ELSE "ok"

\* arguments.value("max_results", 100)
readMaxResults(args) ==
    IF args["max_results"].type = "absent" THEN "ok"
    ELSE IF args["max_results"].type # "number" THEN "type_error"
    ELSE "ok"
maxResultsValue(args) ==
    IF args["max_results"].type = "absent" THEN DefaultMaxResults
    ELSE args["max_results"].n

\* int max_results passed as size_t: a negative value becomes a cap
\* beyond every library, which searches like a cap of size + 1.
asSizeT(max_results, lib) ==
    IF max_results < 0 THEN Len(lib) + 1 ELSE max_results

\* the first failing read, in the order the statements run
firstFailure(outcomes) ==
    IF \E i \in 1..Len(outcomes) : outcomes[i] # "ok"
    THEN outcomes[CHOOSE i \in 1..Len(outcomes) :
                     outcomes[i] # "ok" /\ \A j \in 1..(i - 1) : outcomes[j] = "ok"]
    ELSE "ok"

ToolResult(outcome, json) == [outcome |-> outcome, json |-> json]
NoJson == [kind |-> "none"]
searchJson(result) ==
    [kind |-> "search", found |-> Len(result.track_indices),
     total_matches |-> result.total_matches, indices |-> result.track_indices]

firstN(s, n) == SubSeq(s, 1, Min(n, Len(s)))

\* get_library_overview; total_tracks is what the flavour computes
overviewJson(lib, total_tracks) ==
    [kind |-> "overview", total_tracks |-> total_tracks,
     unique_artists |-> Len(getUniqueArtists(lib)),
     unique_genres |-> Len(getUniqueGenres(lib)),
     unique_albums |-> Len(getUniqueAlbums(lib)),
     sample_artists |-> firstN(getUniqueArtists(lib), SampleLimit),
     sample_genres |-> firstN(getUniqueGenres(lib), SampleLimit)]

overviewTotalTracks(flavour, lib) ==
    IF flavour = "openai"
    THEN searchByYearRange(lib, OverviewFromYear, OverviewToYear, OverviewCap).total_matches
    ELSE Len(getUniqueArtists(lib))

ToolQueryKey ==
    [search_by_artist |-> "artist_name", search_by_genre |-> "genre",
     search_by_album |-> "album_name", search_by_title |-> "title"]

toolSearch(name, query, cap, lib) ==
    CASE name = "search_by_artist" -> searchByArtist(lib, query, cap)
      [] name = "search_by_genre" -> searchByGenre(lib, query, cap)
      [] name = "search_by_album" -> searchByAlbum(lib, query, cap)
      [] name = "search_by_title" -> searchByTitle(lib, query, cap)

\* executeToolCall of either flavour
executeToolCall(flavour, name, args, lib) ==
    LET cap == asSizeT(maxResultsValue(args), lib)
    IN  IF name \in DOMAIN ToolQueryKey
        THEN LET key == ToolQueryKey[name]
                 read == firstFailure(<<readArg(args, key, "string"), readMaxResults(args)>>)
             IN  IF read # "ok" THEN ToolResult(read, NoJson)
                 ELSE ToolResult("ok", searchJson(toolSearch(name, args[key].s, cap, lib)))
        ELSE IF name = "search_by_year_range"
        THEN LET read == firstFailure(<<readArg(args, "start_year", "number"),
                                        readArg(args, "end_year", "number"),
                                        readMaxResults(args)>>)
             IN  IF read # "ok" THEN ToolResult(read, NoJson)
                 ELSE ToolResult("ok", searchJson(
                         searchByYearRange(lib, args["start_year"].n, args["end_year"].n, cap)))
        ELSE IF name = "get_library_overview"
        THEN ToolResult("ok", overviewJson(lib, overviewTotalTracks(flavour, lib)))
        ELSE ToolResult("ok", [kind |-> "error", name |-> name])

\* the initial prompt names the library size and the user's request
initialPrompt(user_prompt, lib) == [tracks |-> Len(lib), request |-> user_prompt]

\* generate() of either flavour up to the loop
toolStart_noEmptyTest(call, lib) ==
    [call EXCEPT !.pc = "loop", !.did = @ \cup {"buildPrompt"},
                 !.messages = <<UserMessage(initialPrompt(call.user_prompt, lib))>>]
toolStart(call, lib) ==
    IF lib = <<>>
    THEN [call EXCEPT !.pc = "done", !.result = Failure]
    ELSE [call EXCEPT !.pc = "loop", !.did = @ \cup {"buildPrompt"},
                      !.messages = <<UserMessage(initialPrompt(call.user_prompt, lib))>>]

ToolStart(flavour) ==
    /\ be.kind = flavour /\ be.pc = "start"
    /\ be' = toolStart(be, library)
    /\ UNCHANGED <<library, sampled_indices, response_text, op, out>>

OpenAIStart == ToolStart("openai")
AnthropicStart == ToolStart("anthropic")

\* idx.get<size_t>(): the value of a non-negative integer
getSizeT(e) == e.hi * Limb + e.lo

\* idx.get<size_t>() < library_metadata.size(): a negative integer wraps
\* to a value near 2^64, and a high limb of 2^15 or more is a value of
\* 2^31 or more, beyond every size written here.
trackInRange_anyIndex(e, size) == e.hi = 0
trackInRange(e, size) ==
    /\ e.hi >= 0
    /\ e.hi < Limb \div 2
    /\ getSizeT(e) < size

\* the loop over indices_array
RECURSIVE mapTracks(_, _)
mapTracks(elems, size) ==
    IF elems = <<>> THEN <<>>
    ELSE LET idx == Head(elems)
         IN  (IF idx.k = "int" /\ trackInRange(idx, size)
              THEN <<to_string(getSizeT(idx))>>
              ELSE <<>>)
             \o mapTracks(Tail(elems), size)

\* The try block on a final text: the playlist, or <<>> when there is no
\* bracket pair, the slice does not parse (caught), it is no array, or the
\* array is empty.
toolAnswer(text, size) ==
    LET start == findFirst(text, LBR)
        end == findLast(text, RBR)
        indices_array == jsonParse(SubSeq(text, start, end))
    IN  IF start = 0 \/ end = 0 \/ ~(start < end) THEN <<>>
        ELSE IF ~indices_array.ok THEN <<>>
        ELSE IF indices_array.k # "array" \/ indices_array.elems = <<>> THEN <<>>
        ELSE mapTracks(indices_array.elems, size)

\* what a thrown json::type_error or an undefined read makes of generate()
Undefined == [status |-> "undefined", playlist |-> <<>>]
Abandoned(outcome) == IF outcome = "type_error" THEN Escaped ELSE Undefined

\* after the body of one turn that continues: the next turn, or the end of
\* the loop
NextTurn_noBudget(call, messages) ==
    [call EXCEPT !.turn = @ + 1, !.messages = messages]
NextTurn(call, messages) ==
    IF call.turn + 1 < MAX_TURNS
    THEN [call EXCEPT !.turn = @ + 1, !.messages = messages]
    ELSE [call EXCEPT !.pc = "done", !.result = Failure,
                      !.turn = @ + 1, !.messages = messages]

\* a return from inside the loop
Ends(call, result, messages) ==
    [call EXCEPT !.pc = "done", !.result = result, !.messages = messages]

\* the return on a request that failed or whose body is unusable
AbortLoop_retry(call) == call
AbortLoop(call) == Ends(call, Failure, call.messages)

\* a request whose "messages" member is the newest message alone
Sent_lastOnly(call, kind) ==
    [call EXCEPT !.requests = @ + 1, !.last = kind, !.did = @ \cup {"request"},
                 !.carried = <<call.messages[Len(call.messages)]>>]
\* what every turn does whatever its outcome: one request was sent, and its
\* "messages" member is the list as it stands
Sent(call, kind) ==
    [call EXCEPT !.requests = @ + 1, !.last = kind, !.did = @ \cup {"request"},
                 !.carried = call.messages]

(* OpenAI schema *)
ToolCall(name, id, parsable, args) ==
    [name |-> name, id |-> id, parsable |-> parsable, args |-> args]
Message(has_tool_calls, tool_calls, has_content, content) ==
    [role |-> "assistant", has_tool_calls |-> has_tool_calls, tool_calls |-> tool_calls,
     has_content |-> has_content, content |-> content]
ToolMessage(tool_call_id, content) ==
    [role |-> "tool", tool_call_id |-> tool_call_id, content |-> content]

\* the loop over message["tool_calls"]: the messages appended, until a
\* call fails outside the try block
Execution(name, args) == [name |-> name, args |-> args]

RECURSIVE runToolCalls_failOnMalformed(_, _, _, _)
runToolCalls_failOnMalformed(tool_calls, lib, messages, executed) ==
    IF tool_calls = <<>>
    THEN [outcome |-> "ok", messages |-> messages, executed |-> executed]
    ELSE LET tool_call == Head(tool_calls)
             result == executeToolCall("openai", tool_call.name, tool_call.args, lib)
             now_executed == Append(executed, Execution(tool_call.name, tool_call.args))
         IN  IF ~tool_call.parsable
             THEN [outcome |-> "type_error", messages |-> messages, executed |-> executed]
             ELSE IF result.outcome # "ok"
             THEN [outcome |-> result.outcome, messages |-> messages,
                   executed |-> now_executed]
             ELSE runToolCalls_failOnMalformed(Tail(tool_calls), lib,
                     Append(messages, ToolMessage(tool_call.id, result.json)), now_executed)

RECURSIVE runToolCalls(_, _, _, _)
runToolCalls(tool_calls, lib, messages, executed) ==
    IF tool_calls = <<>>
    THEN [outcome |-> "ok", messages |-> messages, executed |-> executed]
    ELSE LET tool_call == Head(tool_calls)
             result == executeToolCall("openai", tool_call.name, tool_call.args, lib)
             now_executed == Append(executed, Execution(tool_call.name, tool_call.args))
         IN  IF ~tool_call.parsable
             THEN runToolCalls(Tail(tool_calls), lib, messages, executed)
             ELSE IF result.outcome # "ok"
             THEN [outcome |-> result.outcome, messages |-> messages,
                   executed |-> now_executed]
             ELSE runToolCalls(Tail(tool_calls), lib,
                     Append(messages, ToolMessage(tool_call.id, result.json)), now_executed)

ArtistArgs == [NoArgs EXCEPT !["artist_name"] = Str(<<"a">>)]
CappedArgs == [NoArgs EXCEPT !["title"] = Str(<<"a">>), !["max_results"] = Number(1)]
WrongTypeArgs == [NoArgs EXCEPT !["genre"] = Number(1)]

OpenAIResponses ==
    {[kind |-> k, message |-> Message(FALSE, <<>>, FALSE, <<>>)] :
        k \in {"no_response", "http_error", "bad_json", "no_choices"}}
    \cup {[kind |-> "message", message |-> m] :
            m \in {Message(TRUE, <<ToolCall("search_by_artist", "c1", TRUE, ArtistArgs),
                                   ToolCall("search_by_title", "c2", FALSE, NoArgs),
                                   ToolCall("get_library_overview", "c3", TRUE, NoArgs)>>,
                           FALSE, <<>>),
                   Message(TRUE, <<ToolCall("search_by_title", "c1", TRUE, CappedArgs),
                                   ToolCall("search_by_genre", "c2", TRUE, WrongTypeArgs)>>,
                           FALSE, <<>>),
                   Message(TRUE, <<ToolCall("search_by_album", "c1", TRUE, NoArgs)>>,
                           FALSE, <<>>),
                   Message(FALSE, <<>>, FALSE, <<>>)}
                  \cup {Message(FALSE, <<>>, TRUE, t) : t \in AnswerTexts}}

\* one turn of ChatGPTBackend::generate's loop, on the response resp
openaiTurn(call, resp, lib) ==
    LET message == resp.message
        sent == Sent(call, resp.kind)
        with_message == Append(call.messages, message)
        ran == runToolCalls(message.tool_calls, lib, with_message, call.executed)
        ran_call == [sent EXCEPT !.executed = ran.executed]
        playlist == toolAnswer(message.content, Len(lib))
    IN  IF resp.kind # "message"
        THEN AbortLoop(sent)
        ELSE IF message.has_tool_calls
        THEN IF ran.outcome = "ok"
             THEN NextTurn(ran_call, ran.messages)
             ELSE Ends(ran_call, Abandoned(ran.outcome), ran.messages)
        ELSE IF message.has_content /\ playlist # <<>>
        THEN Ends(sent, Success(playlist), with_message)
        ELSE Ends(sent, Failure, with_message)

OpenAITurn ==
    /\ be.kind = "openai" /\ be.pc = "loop"
    /\ \E resp \in OpenAIResponses :
          /\ response_text' = resp.message.content
          /\ be' = openaiTurn(be, resp, library)
    /\ UNCHANGED <<library, sampled_indices, op, out>>

(* Anthropic schema *)
Block(type, name, id, input, text) ==
    [type |-> type, name |-> name, id |-> id, input |-> input, text |-> text]
TextBlock(text) == Block("text", "", "", NoArgs, text)
ToolUse(name, id, input) == Block("tool_use", name, id, input, <<>>)
ToolResultBlock(tool_use_id, content) ==
    [type |-> "tool_result", tool_use_id |-> tool_use_id, content |-> content]
AssistantMessage(content) == [role |-> "assistant", content |-> content]

\* the loop over the content blocks of a tool_use response: the
\* tool_results collected, until a tool fails
runToolUses_firstOnly(content, lib, tool_results, executed) ==
    IF content = <<>> \/ Head(content).type # "tool_use"
    THEN [outcome |-> "ok", tool_results |-> tool_results, executed |-> executed]
    ELSE LET result == executeToolCall("anthropic", Head(content).name,
                                       Head(content).input, lib)
         IN  [outcome |-> result.outcome,
              tool_results |-> IF result.outcome = "ok"
                               THEN Append(tool_results,
                                           ToolResultBlock(Head(content).id, result.json))
                               ELSE tool_results,
              executed |-> Append(executed,
                                  Execution(Head(content).name, Head(content).input))]

RECURSIVE runToolUses(_, _, _, _)
runToolUses(content, lib, tool_results, executed) ==
    IF content = <<>>
    THEN [outcome |-> "ok", tool_results |-> tool_results, executed |-> executed]
    ELSE LET content_block == Head(content)
             result == executeToolCall("anthropic", content_block.name,
                                       content_block.input, lib)
             now_executed == Append(executed,
                                    Execution(content_block.name, content_block.input))
         IN  IF content_block.type # "tool_use"
             THEN runToolUses(Tail(content), lib, tool_results, executed)
             ELSE IF result.outcome # "ok"
             THEN [outcome |-> result.outcome, tool_results |-> tool_results,
                   executed |-> now_executed]
             ELSE runToolUses(Tail(content), lib,
                     Append(tool_results, ToolResultBlock(content_block.id, result.json)),
                     now_executed)

\* the loop over the content blocks of an end_turn response: the first
\* text block that yields a playlist decides
RECURSIVE finalAnswer(_, _)
finalAnswer(content, size) ==
    IF content = <<>> THEN <<>>
    ELSE LET content_block == Head(content)
             playlist == toolAnswer(content_block.text, size)
         IN  IF content_block.type = "text" /\ playlist # <<>>
             THEN playlist
             ELSE finalAnswer(Tail(content), size)

AnthropicResponse(kind, stop_reason, has_content, content) ==
    [kind |-> kind, stop_reason |-> stop_reason,
     has_content |-> has_content, content |-> content]

YearArgs == [NoArgs EXCEPT !["start_year"] = Number(1960), !["end_year"] = Number(1979),
                           !["max_results"] = Number(-1)]

AnthropicResponses ==
    {AnthropicResponse(k, "", FALSE, <<>>) : k \in {"no_response", "http_error", "bad_json"}}
    \cup {AnthropicResponse("json", "tool_use", TRUE,
              <<TextBlock(<<WORD>>),
                ToolUse("search_by_year_range", "t1", YearArgs),
                ToolUse("get_library_overview", "t2", NoArgs),
                ToolUse("search_by_mood", "t3", NoArgs)>>),
          AnthropicResponse("json", "tool_use", TRUE,
              <<ToolUse("search_by_artist", "t1", ArtistArgs),
                ToolUse("search_by_genre", "t2", WrongTypeArgs)>>),
          AnthropicResponse("json", "tool_use", TRUE,
              <<ToolUse("search_by_year_range", "t1", NoArgs)>>),
          AnthropicResponse("json", "max_tokens", TRUE, <<TextBlock(<<LBR, IntTok(0), RBR>>)>>),
          AnthropicResponse("json", "end_turn", FALSE, <<>>),
          AnthropicResponse("json", "end_turn", TRUE,
              <<TextBlock(<<LBR, IntTok(9), RBR>>), TextBlock(<<LBR, IntTok(0), RBR>>)>>)}
    \cup {AnthropicResponse("json", "end_turn", TRUE, <<TextBlock(t)>>) : t \in AnswerTexts}

\* one turn of ClaudeBackend::generate's loop, on the response resp
anthropicTurn(call, resp, lib) ==
    LET sent == Sent(call, resp.kind)
        with_content == IF resp.has_content
                        THEN Append(call.messages, AssistantMessage(resp.content))
                        ELSE call.messages
        ran == runToolUses(resp.content, lib, <<>>, call.executed)
        ran_call == [sent EXCEPT !.executed = ran.executed]
        playlist == finalAnswer(resp.content, Len(lib))
    IN  IF resp.kind # "json"
        THEN AbortLoop(sent)
        ELSE IF resp.stop_reason = "tool_use"
        THEN IF ran.outcome = "ok"
             THEN NextTurn(ran_call, Append(with_content, UserMessage(ran.tool_results)))
             ELSE Ends(ran_call, Abandoned(ran.outcome), with_content)
        ELSE IF resp.stop_reason = "end_turn" /\ playlist # <<>>
        THEN Ends(sent, Success(playlist), with_content)
        ELSE Ends(sent, Failure, with_content)

AnthropicTurn ==
    /\ be.kind = "anthropic" /\ be.pc = "loop"
    /\ \E resp \in AnthropicResponses :
          be' = anthropicTurn(be, resp, library)
    /\ UNCHANGED <<library, sampled_indices, response_text, op, out>>

NextBackend ==
    \/ KeywordGenerate
    \/ SingleShotStart
    \/ SingleShotAttempt
    \/ LlamaStart
    \/ LlamaGenerateText
    \/ OpenAIStart
    \/ OpenAITurn
    \/ AnthropicStart
    \/ AnthropicTurn

SpecBackend == InitBackend /\ [][NextBackend]_vars

-----------------------------------------------------------------------------
(* The two tool-calling flavours on one conversation.  In SpecFlavors be   *)
(* holds two calls, be.openai and be.anthropic, of the same request on the *)
(* same library; each step feeds both the same turn of the model, written  *)
(* in each flavour's wire schema.                                          *)
FlavorLib == 1

CallIds == <<"c1", "c2", "c3", "c4">>

\* a turn of the model: tool requests (name and arguments), or a final text
ToolsTurn(requests) == [kind |-> "tools", requests |-> requests, text |-> <<>>]
FinalTurn(text) == [kind |-> "final", requests |-> <<>>, text |-> text]

AbstractTurns ==
    { ToolsTurn(<<Execution("search_by_artist", ArtistArgs),
                  Execution("search_by_year_range", YearArgs),
                  Execution("get_library_overview", NoArgs),
                  Execution("search_by_mood", NoArgs)>>),
      ToolsTurn(<<Execution("search_by_title", CappedArgs)>>),
      ToolsTurn(<<Execution("search_by_album", ArtistArgs),
                  Execution("search_by_genre", WrongTypeArgs)>>),
      FinalTurn(<<WORD, LBR, IntTok(0), RBR, WORD>>),
      FinalTurn(<<LBR, MinusOne, COMMA, IntTok(1), COMMA, FLOAT, COMMA, IntTok(0), RBR>>),
      FinalTurn(<<LBR, TwoTo32Plus1, COMMA, IntTok(9), RBR>>) }

\* the turn as a chat-completions response
asOpenAI(turn) ==
    [kind |-> "message",
     message |->
        IF turn.kind = "tools"
        THEN Message(TRUE, [i \in 1..Len(turn.requests) |->
                               ToolCall(turn.requests[i].name, CallIds[i], TRUE,
                                        turn.requests[i].args)],
                     FALSE, <<>>)
        ELSE Message(FALSE, <<>>, TRUE, turn.text)]

\* the turn as a messages-API response
asAnthropic(turn) ==
    IF turn.kind = "tools"
    THEN AnthropicResponse("json", "tool_use", TRUE,
             [i \in 1..Len(turn.requests) |->
                 ToolUse(turn.requests[i].name, CallIds[i], turn.requests[i].args)])
    ELSE AnthropicResponse("json", "end_turn", TRUE, <<TextBlock(turn.text)>>)

InitFlavors ==
    /\ library \in SeqsUpTo(SearchTracks, FlavorLib)
    /\ sampled_indices = <<>>
    /\ response_text = <<>>
    /\ op = NoOp
    /\ out = NoOut
    /\ be = [openai |-> BackendCall("openai", Request, 0, 0),
             anthropic |-> BackendCall("anthropic", Request, 0, 0)]

\* both calls up to their loops
FlavorsStart ==
    /\ be.openai.pc = "start" /\ be.anthropic.pc = "start"
    /\ be' = [openai |-> toolStart(be.openai, library),
              anthropic |-> toolStart(be.anthropic, library)]
    /\ UNCHANGED <<library, sampled_indices, response_text, op, out>>

\* one turn of the model, answered to whichever call still waits for one
FlavorsTurn ==
    /\ be.openai.pc = "loop" \/ be.anthropic.pc = "loop"
    /\ \E turn \in AbstractTurns :
          /\ response_text' = turn.text
          /\ be' = [openai |-> IF be.openai.pc = "loop"
                               THEN openaiTurn(be.openai, asOpenAI(turn), library)
                               ELSE be.openai,
                    anthropic |-> IF be.anthropic.pc = "loop"
                                  THEN anthropicTurn(be.anthropic, asAnthropic(turn), library)
                                  ELSE be.anthropic]
    /\ UNCHANGED <<library, sampled_indices, op, out>>

NextFlavors ==
    \/ FlavorsStart
    \/ FlavorsTurn

SpecFlavors == InitFlavors /\ [][NextFlavors]_vars

-----------------------------------------------------------------------------
(* The keyword backend on its own (SpecKeyword): generate() on small       *)
(* libraries and on a library of three well-known tracks.                  *)
KeywordLib == 2
max_results_ == 50

Bowie == Track(Some(<<"B","o","w","i","e">>), Some(<<"H","e","r","o","e","s">>),
               None, None, Some(1977))
Beatles == Track(Some(<<"B","e","a","t","l","e","s">>),
                 Some(<<"L","e","t"," ","I","t"," ","B","e">>), None, None, Some(1970))
DaftPunk == Track(Some(<<"D","a","f","t"," ","P","u","n","k">>),
                  Some(<<"O","n","e"," ","M","o","r","e"," ","T","i","m","e">>),
                  None, None, Some(2000))
ThreeTracks == <<Bowie, Beatles, DaftPunk>>
SomethingClassic ==
    <<"g","i","v","e"," ","m","e"," ","s","o","m","e","t","h","i","n","g"," ",
      "c","l","a","s","s","i","c">>
ClassicOnly == <<"c","l","a","s","s","i","c">>

InitKeyword ==
    /\ library \in SeqsUpTo(SearchTracks, KeywordLib) \cup {ThreeTracks}
    /\ sampled_indices = <<>>
    /\ response_text = <<>>
    /\ op = NoOp
    /\ out = NoOut
    /\ be \in {BackendCall("keyword", p, m, s) :
                  p \in KeywordPrompts \cup {SomethingClassic, ClassicOnly},
                  m \in (0..MaxCap) \cup {max_results_},
                  s \in MinScores}

NextKeyword == KeywordGenerate

SpecKeyword == InitKeyword /\ [][NextKeyword]_vars

-----------------------------------------------------------------------------
(* scoreTrack on its own (SpecScore): library holds the one track scored,  *)
(* op the keyword set, out the score.                                      *)
MaxKeywords == 3

ScoreYears == {NoYear, Some(975), Some(1970), Some(1990), Some(1991),
               Some(2014), Some(2015), Some(12345)}
ScoreTracks ==
    {Track(artist, title, album, genre, year) :
        artist \in {None, Some(<<"A","b">>)},
        title \in {None, Some(<<"a","b">>)},
        album \in {None, Some(<<"b"," ","a","B">>)},
        genre \in {None, Some(<<"x","A","B","!">>)},
        year \in ScoreYears}
ScoreKeywords ==
    {<<"a","b">>, <<"o","l","d">>, <<"n","e","w">>, <<"7","0","s">>,
     <<"1","9","7","0">>, <<"z","z">>}

InitScore ==
    /\ library \in {<<track>> : track \in ScoreTracks}
    /\ sampled_indices = <<>>
    /\ response_text = <<>>
    /\ op = NoOp
    /\ out = NoOut
    /\ be = NoBackend

Scored(keywords) ==
    /\ op' = [name |-> "scoreTrack", args |-> [keywords |-> keywords]]
    /\ out' = [kind |-> "score", score |-> scoreTrack(library[1], keywords)]
    /\ UNCHANGED <<library, sampled_indices, response_text, be>>

\* scoreTrack on a keyword set
ScoreTrack ==
    /\ op.name = "none"
    /\ \E keywords \in SUBSET ScoreKeywords :
          /\ Cardinality(keywords) <= MaxKeywords
          /\ Scored(keywords)

\* scoreTrack again, on the set with one more keyword
ScoreTrackWithOneMore ==
    /\ op.name = "scoreTrack"
    /\ Cardinality(op.args.keywords) < MaxKeywords
    /\ \E w \in ScoreKeywords \ op.args.keywords :
          Scored(op.args.keywords \cup {w})

NextScore ==
    \/ ScoreTrack
    \/ ScoreTrackWithOneMore

SpecScore == InitScore /\ [][NextScore]_vars

-----------------------------------------------------------------------------
(* One LlamaCppBackend instance over its lifetime (SpecLlama): be is the   *)
(* instance, op the member function that ran last, out what generateText   *)
(* or initializeModel returned.  The llama.cpp library is the environment: *)
(* whether a load, a tokenizer lookup or a decode succeeds is drawn by     *)
(* each action.  A context has the size it was created with, keeps the     *)
(* tokens decoded into it until it is freed, and a decode that does not    *)
(* fit into what is left of it fails.  The stream callback is code of the  *)
(* caller: while it runs it may throw, and it may call setConfig.          *)
MaxCalls == 2        \* most generateText / initializeModel calls on one instance
MaxContext == 3      \* largest small context_size given to setConfig
MaxTokens == 2       \* largest small max_tokens given to setConfig; most pieces sampled in one call

DefaultContextSize == 2048
DefaultMaxTokens == 1024

LlamaConfig(context_size, max_tokens) ==
    [context_size |-> context_size, max_tokens |-> max_tokens]
Configs ==
    {LlamaConfig(MaxContext, MaxTokens), LlamaConfig(MaxContext - 1, 1),
     LlamaConfig(DefaultContextSize, DefaultMaxTokens)}

Pieces == {<<"a">>, <<"b","c">>}
LoadOutcomes == {"no_model", "no_context", "loaded"}

Instance ==
    [kind |-> "instance", pc |-> "idle",
     config_ |-> LlamaConfig(DefaultContextSize, DefaultMaxTokens),
     initialized_ |-> FALSE, model_ |-> FALSE, ctx_ |-> FALSE, n_ctx |-> 0,
     backend_inits |-> 0, backend_frees |-> 0, model_loads |-> 0,
     held |-> 0, asked |-> 0,
     n_cur |-> 0, n_generated |-> 0, generated_text |-> <<>>,
     has_sink |-> FALSE, sink |-> <<>>, path |-> "none", calls |-> 0]

SinkCall(text, isFinal) == [text |-> text, isFinal |-> isFinal]

\* initializeModel past the test of initialized_: llama_backend_init, the
\* model load and the context creation with n_ctx = config_.context_size
loadModel(self, load) ==
    LET started == [self EXCEPT !.backend_inits = @ + 1, !.model_loads = @ + 1]
    IN  CASE load = "no_model" ->
               [self |-> [started EXCEPT !.model_ = FALSE], ok |-> FALSE]
          [] load = "no_context" ->
               [self |-> [started EXCEPT !.model_ = FALSE, !.ctx_ = FALSE],
                ok |-> FALSE]
          [] OTHER ->
               [self |-> [started EXCEPT !.model_ = TRUE, !.ctx_ = TRUE,
                                         !.n_ctx = self.config_.context_size,
                                         !.held = 0, !.asked = 0,
                                         !.initialized_ = TRUE],
                ok |-> TRUE]

\* initializeModel without the test of initialized_
initializeModel_reload(self, load) == loadModel(self, load)
\* initializeModel: nothing to do on an initialized instance
initializeModel(self, load) ==
    IF self.initialized_
    THEN [self |-> self, ok |-> TRUE]
    ELSE loadModel(self, load)

\* cleanup: free the context, the model, and the backend when initialized
cleanup(self) ==
    [self EXCEPT !.ctx_ = FALSE,
                 !.model_ = FALSE,
                 !.n_ctx = IF self.ctx_ THEN 0 ELSE @,
                 !.held = IF self.ctx_ THEN 0 ELSE @,
                 !.asked = IF self.ctx_ THEN 0 ELSE @,
                 !.backend_frees = IF self.initialized_ THEN @ + 1 ELSE @,
                 !.initialized_ = FALSE]

\* llama_decode of n tokens: they are appended to what the context holds;
\* asked is the most the context was ever asked to hold
Fits(self, n) == self.held + n <= self.n_ctx
Asked(self, n) ==
    [self EXCEPT !.asked = IF self.held + n > @ THEN self.held + n ELSE @]
Decoded(self, n) == [Asked(self, n) EXCEPT !.held = @ + n]

TextOut(text, path) == [kind |-> "text", text |-> text, path |-> path]

\* the early "return """ of generateText: no sink call is made
ReturnsEmpty(self, path) ==
    [self |-> [self EXCEPT !.pc = "idle", !.path = path],
     out |-> TextOut(<<>>, path)]

\* generateText after the loop: the final sink call when there is a sink,
\* else the return
Finishes(self, path) ==
    IF self.has_sink
    THEN [self |-> [self EXCEPT
                      !.pc = "final_call", !.path = path,
                      !.sink = Append(@, SinkCall(self.generated_text, TRUE))],
          out |-> NoOut]
    ELSE [self |-> [self EXCEPT !.pc = "idle", !.path = path],
          out |-> TextOut(self.generated_text, path)]

\* the loop test `n_generated < config_.max_tokens`
Sampling(self) ==
    IF self.n_generated < self.config_.max_tokens
    THEN [self |-> [self EXCEPT !.pc = "sampling"], out |-> NoOut]
    ELSE Finishes(self, "max_tokens")

\* generateText up to the generation loop
generateTextPrompt(self, n_prompt, has_sink, env) ==
    LET init == IF ~self.initialized_
                THEN initializeModel(self, env.load)
                ELSE [self |-> self, ok |-> TRUE]
        entered == [init.self EXCEPT !.calls = @ + 1,
                                     !.has_sink = has_sink,
                                     !.sink = <<>>,
                                     !.generated_text = <<>>,
                                     !.n_cur = 0,
                                     !.n_generated = 0]
    IN  IF ~init.ok THEN ReturnsEmpty(entered, "load_failed")
        ELSE IF ~env.vocab THEN ReturnsEmpty(entered, "no_vocab")
        ELSE IF n_prompt <= 0 THEN ReturnsEmpty(entered, "not_tokenized")
        ELSE IF n_prompt >= entered.config_.context_size
             THEN ReturnsEmpty(entered, "prompt_too_large")
        ELSE IF env.decode_fault \/ ~Fits(entered, n_prompt)
             THEN ReturnsEmpty(Asked(entered, n_prompt), "prompt_decode_error")
        ELSE Sampling([Decoded(entered, n_prompt) EXCEPT !.n_cur = n_prompt])

\* a pass of the generation loop up to the sink call on the piece
generateTextSample(self, sampled) ==
    CASE sampled.kind = "eog" -> Finishes(self, "end_of_generation")
      [] sampled.kind = "no_piece" -> Finishes(self, "piece_error")
      [] OTHER ->
           [self |-> [self EXCEPT
                        !.pc = "streamed",
                        !.generated_text = @ \o sampled.piece,
                        !.sink = IF self.has_sink
                                 THEN Append(@, SinkCall(sampled.piece, FALSE))
                                 ELSE @],
            out |-> NoOut]

\* the rest of the pass: the context-limit test, the decode of the new
\* token, the counters and the loop test
generateTextDecode(self, decode_fault) ==
    IF self.n_cur >= self.n_ctx
    THEN Finishes(self, "context_limit")
    ELSE IF decode_fault \/ ~Fits(self, 1)
         THEN Finishes(Asked(self, 1), "decode_error")
         ELSE Sampling([Decoded(self, 1) EXCEPT !.n_cur = @ + 1,
                                                !.n_generated = @ + 1])

Environments ==
    [load : LoadOutcomes, vocab : BOOLEAN, decode_fault : BOOLEAN]
Samples ==
    {[kind |-> "eog"], [kind |-> "no_piece"]}
        \cup {[kind |-> "piece", piece |-> piece] : piece \in Pieces}

\* the stream callback is running
InCallback == be.has_sink /\ be.pc \in {"streamed", "final_call"}

InitLlama ==
    /\ library = <<>>
    /\ sampled_indices = <<>>
    /\ response_text = <<>>
    /\ op = NoOp
    /\ out = NoOut
    /\ be = Instance

\* setConfig, between calls or from the stream callback
SetConfig ==
    /\ be.pc = "idle" \/ InCallback
    /\ \E config \in Configs :
          /\ be' = [be EXCEPT !.config_ = config]
          /\ op' = [name |-> "setConfig", args |-> config]
    /\ UNCHANGED <<library, sampled_indices, response_text, out>>

\* a direct call of initializeModel
InitializeModel ==
    /\ be.pc = "idle"
    /\ be.calls < MaxCalls
    /\ \E load \in LoadOutcomes :
          LET done == initializeModel(be, load)
          IN  /\ be' = [done.self EXCEPT !.calls = @ + 1]
              /\ op' = [name |-> "initializeModel", args |-> [load |-> load]]
              /\ out' = [kind |-> "bool", ok |-> done.ok]
    /\ UNCHANGED <<library, sampled_indices, response_text>>

\* generateText is entered: initialization, tokenization, the prompt decode
GenerateTextPrompt ==
    /\ be.pc = "idle"
    /\ be.calls < MaxCalls
    /\ \E n_prompt \in 0..MaxContext, has_sink \in BOOLEAN,
          env \in Environments :
          LET done == generateTextPrompt(be, n_prompt, has_sink, env)
          IN  /\ be' = done.self
              /\ op' = [name |-> "generateText",
                        args |-> [n_prompt |-> n_prompt, has_sink |-> has_sink]]
              /\ out' = done.out
    /\ UNCHANGED <<library, sampled_indices, response_text>>

\* one token is sampled and its piece handed to the sink
GenerateTextSample ==
    /\ be.pc = "sampling"
    /\ \E sampled \in Samples :
          /\ sampled.kind = "piece" => be.n_generated < MaxTokens
          /\ LET done == generateTextSample(be, sampled)
             IN  /\ be' = done.self
                 /\ out' = done.out
    /\ UNCHANGED <<library, sampled_indices, response_text, op>>

\* the sink call on the piece has returned: the pass goes on
GenerateTextDecode ==
    /\ be.pc = "streamed"
    /\ \E decode_fault \in BOOLEAN :
          LET done == generateTextDecode(be, decode_fault)
          IN  /\ be' = done.self
              /\ out' = done.out
    /\ UNCHANGED <<library, sampled_indices, response_text, op>>

\* the final sink call has returned: generateText returns the text
GenerateTextReturn ==
    /\ be.pc = "final_call"
    /\ be' = [be EXCEPT !.pc = "idle"]
    /\ out' = TextOut(be.generated_text, be.path)
    /\ UNCHANGED <<library, sampled_indices, response_text, op>>

\* the stream callback throws: the exception leaves generateText
StreamCallbackThrows ==
    /\ InCallback
    /\ be' = [be EXCEPT !.pc = "idle", !.path = "exception"]
    /\ out' = [kind |-> "exception"]
    /\ UNCHANGED <<library, sampled_indices, response_text, op>>

\* cleanup on a live instance
Cleanup ==
    /\ be.pc = "idle"
    /\ be' = cleanup(be)
    /\ op' = [name |-> "cleanup", args |-> [again |-> op.name = "cleanup"]]
    /\ out' = NoOut
    /\ UNCHANGED <<library, sampled_indices, response_text>>

\* the destructor: cleanup, and the instance is gone
Destroy ==
    /\ be.pc = "idle"
    /\ be' = [cleanup(be) EXCEPT !.pc = "destroyed"]
    /\ op' = [name |-> "~LlamaCppBackend", args |-> [again |-> FALSE]]
    /\ out' = NoOut
    /\ UNCHANGED <<library, sampled_indices, response_text>>

NextLlama ==
    \/ SetConfig
    \/ InitializeModel
    \/ GenerateTextPrompt
    \/ GenerateTextSample
    \/ GenerateTextDecode
    \/ GenerateTextReturn
    \/ StreamCallbackThrows
    \/ Cleanup
    \/ Destroy

SpecLlama == InitLlama /\ [][NextLlama]_vars

-----------------------------------------------------------------------------
(* Claims about the library search index (SpecSearch) *)

IsSearch == op.name \in FieldSearches \cup {"searchByYearRange"}

\* needle occurs in hay when letter case is ignored, stated position by position
CaseInsensitiveSubstring(hay, needle) ==
    \E i \in 0..(Len(hay) - Len(needle)) :
        \A j \in 1..Len(needle) : tolower(hay[i + j]) = tolower(needle[j])

SearchedField(t) ==
    CASE op.name = "searchByArtist" -> t.artist
      [] op.name = "searchByGenre" -> t.genre
      [] op.name = "searchByAlbum" -> t.album
      [] op.name = "searchByTitle" -> t.title

\* the search predicate of the operation in op, on track t
Satisfies(t) ==
    IF op.name = "searchByYearRange"
    THEN t.year.has /\ op.args.start_year <= t.year.val /\ t.year.val <= op.args.end_year
    ELSE SearchedField(t).has /\ CaseInsensitiveSubstring(SearchedField(t).val, op.args.query)

MatchingIndices == {i \in 0..(Len(library) - 1) : Satisfies(library[i + 1])}

\* C1: the total_matches a search returns is the exact number of library
\* tracks that satisfy the search predicate, cap reached or not.
C1_TotalMatchesIsTrueCount ==
    IsSearch => out.result.total_matches = Cardinality(MatchingIndices)

\* C2: every SearchResult produced by a search, intersectResults or
\* unionResults has indices.length <= total_matches, and a search called
\* with cap max_results returns at most max_results indices.
C2_ResultWithinTotalAndCap ==
    /\ out.kind = "SearchResult" =>
          Len(out.result.track_indices) <= out.result.total_matches
    /\ IsSearch => Len(out.result.track_indices) <= op.args.max_results

\* a search stopped by its cap while more tracks matched
C2_Witness ==
    /\ IsSearch
    /\ op.args.max_results > 0
    /\ Len(out.result.track_indices) = op.args.max_results
    /\ Cardinality(MatchingIndices) > op.args.max_results

\* C3: the indices a search returns are the first min(max_results, number
\* of matches) library indices, ascending, whose field is present and
\* contains the query case-insensitively (whose year is present and within
\* [start, end] for searchByYearRange).
C3_IndicesAreFirstMatches ==
    IsSearch =>
        out.result.track_indices =
            SubSeq(Ascending(MatchingIndices), 1,
                   Min(op.args.max_results, Cardinality(MatchingIndices)))

\* an upper-case query matched a lower-case field, and a track was left out
C3_Witness ==
    /\ op.name \in FieldSearches
    /\ op.args.query = <<"B">>
    /\ out.result.track_indices # <<>>
    /\ \E i \in 1..Len(library) : ~SearchedField(library[i]).has
    /\ \E i \in 1..Len(library) :
          /\ SearchedField(library[i]).has
          /\ (i - 1) \notin Range(out.result.track_indices)

\* C4: every index of intersectResults(a, b) occurs in a.indices and in
\* b.indices, and its total_matches is the length of its indices.
C4_IntersectIsSubsetAndRecounted ==
    op.name = "intersectResults" =>
        /\ Range(out.result.track_indices) \subseteq
              Range(op.args.a.track_indices) \cap Range(op.args.b.track_indices)
        /\ out.result.total_matches = Len(out.result.track_indices)

\* a non-empty intersection with a searchByArtist result, whose operands'
\* totals both differ from the recomputed one
C4_Witness ==
    /\ op.name = "intersectResults"
    /\ op.args.b \in ArtistResults(library)
    /\ out.result.track_indices # <<>>
    /\ op.args.a.total_matches # Len(out.result.track_indices)
    /\ op.args.b.total_matches # Len(out.result.track_indices)

-----------------------------------------------------------------------------
(* Claims about the prompt builder (SpecPrompt) *)

\* C5: for a library with size <= max_tracks_in_prompt, buildPrompt sets
\* sampledIndices to [0, 1, ..., size-1], whatever the vector held before.
C5_SmallLibraryListsEveryIndex ==
    (op.name = "buildPrompt" /\ Len(library) <= op.args.max_tracks_in_prompt) =>
        /\ Len(sampled_indices) = Len(library)
        /\ \A i \in 1..Len(library) : sampled_indices[i] = i - 1

\* size == max, and the vector was not empty on entry
C5_Witness ==
    /\ op.name = "buildPrompt"
    /\ Len(library) = op.args.max_tracks_in_prompt
    /\ Len(library) > 0
    /\ op.args.sampled_indices_in # <<>>

\* C6: for a library with size > max_tracks_in_prompt, whatever the
\* shuffle, sampledIndices has exactly max_tracks_in_prompt elements,
\* strictly ascending (hence pairwise distinct), each below the library size.
C6_SampleIsSortedDistinctValid ==
    (op.name = "buildPrompt" /\ Len(library) > op.args.max_tracks_in_prompt) =>
        /\ Len(sampled_indices) = op.args.max_tracks_in_prompt
        /\ \A i, j \in 1..Len(sampled_indices) :
              i < j => sampled_indices[i] < sampled_indices[j]
        /\ \A i \in 1..Len(sampled_indices) :
              sampled_indices[i] \in 0..(Len(library) - 1)

\* a sample of two or more that the shuffle had left out of order
C6_Witness ==
    /\ op.name = "buildPrompt"
    /\ Len(library) > op.args.max_tracks_in_prompt
    /\ op.args.max_tracks_in_prompt >= 2
    /\ op.args.shuffled[1] > op.args.shuffled[2]
    /\ Len(sampled_indices) = op.args.max_tracks_in_prompt

-----------------------------------------------------------------------------
(* Claims about the response parser (SpecParse) *)

Parsed == op.name = "parseJsonResponse"

\* the bracketed slice of the answer and the JSON array in it
FirstOpen == findFirst(response_text, LBR)
LastClose == findLast(response_text, RBR)
HasSlice == FirstOpen # 0 /\ LastClose # 0 /\ FirstOpen < LastClose
Slice == SubSeq(response_text, FirstOpen, LastClose)
AnswerArray == jsonParse(Slice)
HasArray == HasSlice /\ AnswerArray.ok /\ AnswerArray.k = "array"

ReturnedIndices == [i \in 1..Len(out.playlist) |-> stoi(out.playlist[i])]

\* element e of the array is a row number k with 1 <= k <= sampledIndices.length
IsValidRow(e) ==
    e.k = "int" /\ e.hi = 0 /\ 1 <= e.lo /\ e.lo <= Len(sampled_indices)

\* the absolute indices of the valid rows of an array, in the order given
RECURSIVE RowsToIndices(_)
RowsToIndices(elems) ==
    IF elems = <<>> THEN <<>>
    ELSE (IF IsValidRow(Head(elems)) THEN <<sampled_indices[Head(elems).lo]>> ELSE <<>>)
         \o RowsToIndices(Tail(elems))

\* a sequence with every repeated occurrence removed
RECURSIVE WithoutDuplicates(_)
WithoutDuplicates(s) ==
    IF s = <<>> THEN <<>>
    ELSE LET front == WithoutDuplicates(SubSeq(s, 1, Len(s) - 1))
         IN  IF s[Len(s)] \in Range(front) THEN front ELSE Append(front, s[Len(s)])

\* every element of the array is an integer of at most 16 bits
SmallIntegersOnly ==
    \A i \in 1..Len(AnswerArray.elems) :
        AnswerArray.elems[i].k = "int" /\ AnswerArray.elems[i].hi \in {-1, 0}

\* C7: round trip: for row numbers embedded as a JSON array in prose, the
\* parser returns the absolute indices sampledIndices[k-1] in the order
\* given, with out-of-range numbers and duplicates removed.
C7_RoundTripWithoutDuplicates ==
    (Parsed /\ HasArray /\ SmallIntegersOnly) =>
        ReturnedIndices = WithoutDuplicates(RowsToIndices(AnswerArray.elems))

\* C8: an integer k of the array yields an output if and only if
\* 1 <= k <= sampledIndices.length, also when k is beyond 32 bits, and the
\* output is sampledIndices[k-1].
C8_OnlyInRangeRowsAreMapped ==
    (Parsed /\ HasArray) =>
        ReturnedIndices = RowsToIndices(AnswerArray.elems)

\* C9: the parser returns an empty sequence and throws nothing when the
\* text has no '[', no ']', the last ']' is not after the first '[', the
\* slice is an empty array, or the slice is not JSON.
C9_NoArrayGivesEmpty ==
    (Parsed /\ (~HasSlice \/ Slice = <<LBR, RBR>> \/ ~AnswerArray.ok)) =>
        ~out.threw /\ out.playlist = <<>>

\* prose holding brackets of its own around an array makes the slice fail
C9_Witness ==
    /\ Parsed
    /\ HasSlice
    /\ ~AnswerArray.ok
    /\ \E i, j \in 1..Len(response_text) :
          i < j /\ response_text[i] = LBR /\ response_text[j] = LBR
    /\ \E i \in 1..Len(response_text) : response_text[i].t = "int"
    /\ out.playlist = <<>>

-----------------------------------------------------------------------------
(* Claims about the generation backends (SpecBackend) *)

HasReturned == be.pc = "done"

\* C10: whenever generate() of any backend returns a value rather than
\* failure, the returned sequence holds at least one index.
C10_SuccessIsNeverEmpty ==
    (HasReturned /\ be.result.status = "success") => be.result.playlist # <<>>

\* C11: every index of a successful result of any backend is a position of
\* the library the call was given, 0 <= index < size, whatever numbers the
\* answer held.
C11_ReturnedIndicesAreValid ==
    (HasReturned /\ be.result.status = "success") =>
        \A i \in 1..Len(be.result.playlist) :
            stoi(be.result.playlist[i]) \in 0..(Len(library) - 1)

\* a successful answer that also held a negative number, a float, a number
\* beyond the library and one beyond 32 bits
C11_Witness ==
    /\ HasReturned /\ be.result.status = "success"
    /\ be.kind \in {"openai", "singleshot", "llama"}
    /\ \E i \in 1..Len(response_text) : response_text[i] = MinusOne
    /\ \E i \in 1..Len(response_text) : response_text[i] = FLOAT
    /\ \E i \in 1..Len(response_text) : response_text[i] = IntTok(9)
    /\ \E i \in 1..Len(response_text) : response_text[i] = TwoTo32Plus1
    /\ Len(be.result.playlist) >= 2

ToolKinds == {"openai", "anthropic"}
InToolLoop == be.kind \in ToolKinds

\* C12: one generate() call of a tool-calling backend sends at most 10
\* requests, and when 10 turns in a row ended without a final answer the
\* call has returned failure with exactly 10 requests sent.
C12_TurnBudgetIsKept ==
    InToolLoop =>
        /\ be.requests <= 10
        /\ be.turn = 10 => (HasReturned /\ be.result = Failure /\ be.requests = 10)

\* ten turns that each asked for tools
C12_Witness ==
    /\ InToolLoop /\ HasReturned
    /\ be.turn = 10
    /\ Len(be.executed) >= 10

\* a turn that asked for tools has run to its end: the next request is
\* about to be sent, or the budget ended the call
ToolTurnCompleted ==
    /\ InToolLoop /\ be.turn >= 1
    /\ be.pc = "loop" \/ be.turn = MAX_TURNS

IsAssistant(k) == be.messages[k].role = "assistant"
HasAssistant == \E k \in 1..Len(be.messages) : IsAssistant(k)
LastAssistant ==
    CHOOSE k \in 1..Len(be.messages) :
        IsAssistant(k) /\ \A j \in (k + 1)..Len(be.messages) : ~IsAssistant(j)

IdsOf(records) == [i \in 1..Len(records) |-> records[i].id]
IsToolUse(block) == block.type = "tool_use"

\* the call ids the latest assistant message asked for, in order
RequestedIds ==
    IF be.kind = "openai"
    THEN IdsOf(be.messages[LastAssistant].tool_calls)
    ELSE IdsOf(SelectSeq(be.messages[LastAssistant].content, IsToolUse))

\* the call ids of the tool results that follow that message, in order
AnsweredIds ==
    LET after == SubSeq(be.messages, LastAssistant + 1, Len(be.messages))
    IN  IF be.kind = "openai"
        THEN [i \in 1..Len(after) |-> after[i].tool_call_id]
        ELSE [i \in 1..Len(after[1].content) |-> after[1].content[i].tool_use_id]

\* C13: after a turn in which the model asked for n tool invocations the
\* history holds, after the assistant message and before the next request,
\* one tool result per requested call, carrying that call's id; no
\* requested id is left without a result.
C13_EveryToolCallIsAnswered ==
    (ToolTurnCompleted /\ HasAssistant) =>
        /\ LastAssistant < Len(be.messages)
        /\ AnsweredIds = RequestedIds

IsParsable(tool_call) == tool_call.parsable

\* the step is a turn of the OpenAI-schema loop whose message asks for
\* several tools, one of them with arguments that are no JSON and the
\* others with arguments their tools accept
MalformedAmongGoodCalls ==
    /\ be.kind = "openai" /\ be.pc = "loop"
    /\ be'.requests = be.requests + 1 /\ be'.last = "message"
    /\ Len(be'.messages) > Len(be.messages)
    /\ LET message == be'.messages[Len(be.messages) + 1]
       IN  /\ message.has_tool_calls
           /\ Len(message.tool_calls) >= 2
           /\ \E i \in 1..Len(message.tool_calls) : ~message.tool_calls[i].parsable
           /\ \A i \in 1..Len(message.tool_calls) :
                 message.tool_calls[i].parsable =>
                     executeToolCall("openai", message.tool_calls[i].name,
                                     message.tool_calls[i].args, library).outcome = "ok"

\* C14: when one tool call of a turn has arguments that cannot be parsed,
\* the other calls of the turn are executed and answered in order, the
\* malformed one is skipped, and the loop goes on to the next turn (the
\* call fails only when that turn was the last of the budget).
C14_MalformedCallIsSkipped ==
    [][MalformedAmongGoodCalls =>
          LET message == be'.messages[Len(be.messages) + 1]
              good == SelectSeq(message.tool_calls, IsParsable)
              appended == SubSeq(be'.messages, Len(be.messages) + 2, Len(be'.messages))
          IN  /\ be'.turn = be.turn + 1
              /\ be'.pc = "loop" \/ (be'.turn = MAX_TURNS /\ be'.result = Failure)
              /\ Len(appended) = Len(good)
              /\ \A i \in 1..Len(good) :
                    /\ appended[i].role = "tool"
                    /\ appended[i].tool_call_id = good[i].id
              /\ be'.executed =
                    be.executed \o [i \in 1..Len(good) |->
                                       Execution(good[i].name, good[i].args)]]_vars

\* the loop goes on after a turn with calls c1 and c3 answered and the
\* malformed c2 skipped
C14_Witness ==
    /\ be.kind = "openai" /\ be.pc = "loop" /\ be.turn >= 1
    /\ \E i \in 1..Len(be.messages[LastAssistant].tool_calls) :
          ~be.messages[LastAssistant].tool_calls[i].parsable
    /\ Len(AnsweredIds) = 2
    /\ Len(RequestedIds) = 3

\* C15: generate() of a tool-calling backend ends in a value or in
\* failure for every provider response, tool calls with a missing or
\* wrongly typed argument included; nothing is thrown past it.
C15_NoFaultLeavesGenerate ==
    InToolLoop => be.result.status \in {"none", "success", "failure"}

TransportFailures == {"no_response", "http_error"}

\* C16: in the tool-call loop a request that gets no response or a status
\* other than 200, at the first turn or a later one, ends generate() in
\* failure at once: it is the call's last request, it is not sent again,
\* and nothing is sent after it.
C16_TransportFailureAbortsLoop ==
    /\ [](InToolLoop /\ be.last \in TransportFailures =>
             /\ HasReturned /\ be.result = Failure
             /\ be.requests = be.turn + 1)
    /\ [][InToolLoop /\ be.last \in TransportFailures =>
             be'.requests = be.requests]_vars

\* a non-200 status after two turns of tool calls
C16_Witness ==
    /\ InToolLoop /\ HasReturned
    /\ be.last = "http_error"
    /\ be.turn = 2 /\ be.requests = 3

IsSingleShot == be.kind = "singleshot"
MalformedEnvelopes == {"bad_json", "no_content", "no_text"}

\* C17: the single-shot backend sends at most 2 requests per generate();
\* a second one only after a first that got no response or a status other
\* than 200; a 200 response with a malformed envelope or without a valid
\* index ends the call in failure with no further request; and a second
\* failed attempt ends the call in failure.
C17_SingleShotRetriesOnce ==
    /\ [](IsSingleShot =>
             /\ be.requests <= 2
             /\ be.last \in MalformedEnvelopes => (HasReturned /\ be.result = Failure)
             /\ be.last = "text" => HasReturned
             /\ (be.last = "text"
                    /\ parseJsonResponse(response_text, sampled_indices).playlist = <<>>)
                  => be.result = Failure
             /\ (be.requests = 2 /\ be.last \in TransportFailures)
                  => (HasReturned /\ be.result = Failure))
    /\ [][(IsSingleShot /\ be.requests >= 1 /\ be'.requests > be.requests) =>
             (be.last \in TransportFailures /\ be'.requests = be.requests + 1)]_vars

\* a transport failure followed by a second attempt that also failed
C17_Witness ==
    /\ IsSingleShot /\ HasReturned
    /\ be.requests = 2
    /\ be.last \in TransportFailures
    /\ be.result = Failure

\* C19: on an empty library generate() of every backend returns failure
\* before anything else: no prompt was built, no request sent, no text
\* generated (so no model loaded and no stream sink called), no keyword
\* extracted and no tool executed.
C19_EmptyLibraryFailsAtOnce ==
    library = <<>> =>
        /\ be.pc \in {"start", "done"}
        /\ HasReturned => be.result = Failure
        /\ be.did = {}
        /\ be.requests = 0
        /\ be.messages = <<>>
        /\ be.executed = <<>>
        /\ sampled_indices = <<>>

\* a tool-calling backend returned on an empty library
C19_Witness ==
    /\ library = <<>>
    /\ HasReturned
    /\ be.kind = "anthropic"
    /\ be.result = Failure

IsKeyword == be.kind = "keyword"

\* the reference: tracks scoring above min_score, by descending score and,
\* among equal scores, ascending library index; the first max_results
KeywordScoreOf(i) == scoreTrack(library[i + 1], extractKeywords(be.user_prompt))
Qualifying == {i \in 0..(Len(library) - 1) : KeywordScoreOf(i) > be.min_score}
RankedBefore(i, j) ==
    \/ KeywordScoreOf(i) > KeywordScoreOf(j)
    \/ KeywordScoreOf(i) = KeywordScoreOf(j) /\ i < j
RankOf(i) == Cardinality({j \in Qualifying : RankedBefore(j, i)}) + 1
KeywordReference ==
    [r \in 1..Min(Cardinality(Qualifying), be.max_results) |->
        to_string(CHOOSE i \in Qualifying : RankOf(i) = r)]

\* C20: a successful result of the keyword backend is the reference: the
\* tracks scoring strictly above min_score, ordered by descending score
\* with equal scores in ascending library order, cut to max_results.
C20_KeywordResultIsReference ==
    (IsKeyword /\ HasReturned /\ be.result.status = "success") =>
        be.result.playlist = KeywordReference

IsPrefixOf(s, t) == Len(s) <= Len(t) /\ SubSeq(t, 1, Len(s)) = s

\* C27: within one generate() call of a tool-calling flavour the message
\* list starts as exactly one user message; from one request to the next it
\* only grows, the earlier list being a proper prefix of the later one; no
\* message is removed, reordered or altered, and every request carries the
\* whole list.
C27_HistoryIsAppendOnly ==
    /\ [][(be.kind \in ToolKinds /\ be.pc = "start" /\ be'.pc = "loop")
            => (Len(be'.messages) = 1 /\ be'.messages[1].role = "user")]_vars
    /\ [][(be.kind \in ToolKinds /\ be.pc = "loop")
            => /\ IsPrefixOf(be.messages, be'.messages)
               /\ be'.pc = "loop" => Len(be'.messages) > Len(be.messages)
               /\ be'.requests = be.requests + 1
               /\ be'.carried = be.messages]_vars

C27_Witness ==
    /\ be.kind \in ToolKinds
    /\ be.requests >= 3
    /\ Len(be.carried) >= 4
    /\ Len(be.messages) > Len(be.carried)


\* the results of get_library_overview handed back to the model so far
OverviewResults ==
    IF be.kind = "openai"
    THEN {be.messages[i].content : i \in
             {j \in 1..Len(be.messages) :
                 /\ be.messages[j].role = "tool"
                 /\ be.messages[j].content.kind = "overview"}}
    ELSE IF be.kind = "anthropic"
    THEN UNION {{be.messages[i].content[k].content : k \in
                   {l \in 1..Len(be.messages[i].content) :
                       be.messages[i].content[l].content.kind = "overview"}} :
                i \in {j \in 2..Len(be.messages) : be.messages[j].role = "user"}}
    ELSE {}

\* C30: in both flavours the total_tracks field of a get_library_overview
\* result equals the number of tracks in the library.
C30_OverviewCountsTheLibrary ==
    \A overview \in OverviewResults : overview.total_tracks = Len(library)

-----------------------------------------------------------------------------
(* Claims about the two tool-calling flavours (SpecFlavors) *)

\* C18: fed the same turns of the model, the OpenAI-schema and the
\* Anthropic-schema backend have sent the same number of requests, have
\* executed the same tools with the same arguments in the same order, and
\* are at the same point with the same result.
C18_FlavorsAgree ==
    /\ be.openai.requests = be.anthropic.requests
    /\ be.openai.executed = be.anthropic.executed
    /\ be.openai.pc = be.anthropic.pc
    /\ be.openai.turn = be.anthropic.turn
    /\ be.openai.result = be.anthropic.result

\* both returned a playlist after two turns of several tool requests
C18_Witness ==
    /\ be.openai.pc = "done" /\ be.anthropic.pc = "done"
    /\ be.openai.result.status = "success"
    /\ be.openai.turn = 2
    /\ Len(be.anthropic.executed) >= 5
    /\ be.openai.messages # be.anthropic.messages

-----------------------------------------------------------------------------
(* Claims about the keyword backend (SpecKeyword) *)

ScenarioRan ==
    /\ IsKeyword /\ HasReturned
    /\ library = ThreeTracks
    /\ be.user_prompt = SomethingClassic
    /\ be.max_results = max_results_
    /\ be.min_score = 0

\* C21: on the library [Bowie/Heroes/1977, Beatles/Let It Be/1970,
\* Daft Punk/One More Time/2000] the request "give me something classic"
\* makes the keyword backend return exactly the first two tracks in
\* library order; the third scores 0 and is left out.
C21_ClassicScenario ==
    ScenarioRan =>
        /\ be.result = Success(<<to_string(0), to_string(1)>>)
        /\ KeywordScoreOf(2) = 0

\* C22: on a non-empty library the keyword backend returns failure when
\* no keyword is extracted from the request and when no track scores
\* strictly above min_score, and returns a result in every other case.
C22_KeywordFailsOnlyWithoutMatch ==
    (IsKeyword /\ HasReturned /\ library # <<>>) =>
        /\ be.result.status \in {"success", "failure"}
        /\ be.result = Failure <=>
              (extractKeywords(be.user_prompt) = {} \/ Qualifying = {})

\* a request of stop words, a one-letter token and punctuation, with a
\* min_score that every track exceeds
C22_Witness ==
    /\ IsKeyword /\ HasReturned /\ library # <<>>
    /\ be.user_prompt = <<"t","h","e"," ","a","!">>
    /\ be.min_score < 0
    /\ be.result = Failure

-----------------------------------------------------------------------------
(* Claims about scoreTrack (SpecScore) *)

IsScore == op.name = "scoreTrack"

\* C23: keyword scoring is monotonic: a track's score on a keyword set
\* with one more keyword is at least its score on the set without it, and
\* no score is negative.
C23_ScoreIsMonotonic ==
    /\ [](IsScore => out.score >= 0)
    /\ [][(IsScore /\ op'.name = "scoreTrack"
             /\ op.args.keywords \subseteq op'.args.keywords)
           => out'.score >= out.score]_vars

\* a track that gains from the keywords added
C23_Witness ==
    /\ IsScore
    /\ Cardinality(op.args.keywords) = 3
    /\ <<"z","z">> \in op.args.keywords
    /\ out.score >= 8

\* the year matches the keyword as the scoring rule words it
DecadeOf(year) == Digits[((year \div 10) % 10) + 1]
YearMatches(keyword, year) ==
    \/ keyword = to_string(year)
    \/ /\ Len(keyword) = 3 /\ keyword[2] = "0" /\ keyword[3] = "s"
       /\ keyword[1] = DecadeOf(year)
    \/ keyword \in RecentWords /\ year >= 2015
    \/ keyword \in ClassicWords /\ year <= 1990

FieldHolds(field, keyword) == field.has /\ CaseInsensitiveSubstring(field.val, keyword)

ReferenceScoreOf(track, keyword) ==
      (IF FieldHolds(track.artist, keyword) THEN 5 ELSE 0)
    + (IF FieldHolds(track.genre, keyword) THEN 4 ELSE 0)
    + (IF FieldHolds(track.title, keyword) THEN 2 ELSE 0)
    + (IF FieldHolds(track.album, keyword) THEN 2 ELSE 0)
    + (IF track.year.has /\ YearMatches(keyword, track.year.val) THEN 3 ELSE 0)

RECURSIVE ReferenceScore(_, _)
ReferenceScore(track, keywords) ==
    IF keywords = {} THEN 0
    ELSE LET keyword == CHOOSE k \in keywords : TRUE
         IN  ReferenceScoreOf(track, keyword) + ReferenceScore(track, keywords \ {keyword})

\* C26: scoreTrack is the sum over the keywords of +5 for an artist match,
\* +4 genre, +2 title, +2 album and +3 for a year match, a year match
\* being the year's decimal text, a decade shorthand D0s with D the tens
\* digit of the year, recent/new/modern with year >= 2015, or
\* classic/old/vintage with year <= 1990; no year, no +3.
C26_ScoreIsWeightedSum ==
    IsScore => out.score = ReferenceScore(library[1], op.args.keywords)

-----------------------------------------------------------------------------
(* Claims about the local-model backend (SpecLlama) *)

IsInstance == be.kind = "instance"
RECURSIVE ChunksJoined(_, _)
ChunksJoined(sink, n) ==
    IF n = 0 THEN <<>> ELSE ChunksJoined(sink, n - 1) \o sink[n].text

GenerateTextReturned ==
    IsInstance /\ be.pc = "idle" /\ out.kind = "text"

\* the sink has had its chunks and then one final call with their concatenation
SinkIsComplete ==
    /\ Len(be.sink) >= 1
    /\ \A i \in 1..(Len(be.sink) - 1) : ~be.sink[i].isFinal
    /\ be.sink[Len(be.sink)].isFinal
    /\ be.sink[Len(be.sink)].text = ChunksJoined(be.sink, Len(be.sink) - 1)

\* the ways out of the generation the claim lists
GenerationExits ==
    {"end_of_generation", "max_tokens", "context_limit", "decode_error",
     "prompt_decode_error", "prompt_too_large"}

\* C24: a sink given to generateText receives zero or more calls with
\* isFinal = false, one per decoded token, and then exactly one call with
\* isFinal = true whose text is the concatenation of the chunks; this final
\* call is made on every exit path of the generation, and nothing follows it.
C24_SinkGetsOneFinalCall ==
    /\ (IsInstance /\ be.pc \in {"sampling", "streamed"})
          => \A i \in 1..Len(be.sink) : ~be.sink[i].isFinal
    /\ (IsInstance /\ be.pc = "final_call") => SinkIsComplete
    /\ (GenerateTextReturned /\ be.has_sink /\ out.path \in GenerationExits)
          => SinkIsComplete

\* C25: the model and the context are loaded only by a call made while the
\* instance is not initialized (the first after construction or after a
\* cleanup); initializeModel on an initialized instance loads nothing and
\* reports success; after cleanup or destruction the model and the context
\* are released and initialized_ is false; a second cleanup changes nothing.
C25_LoadsOnlyWhenNotInitialized ==
    /\ [][be'.model_loads > be.model_loads
            => (~be.initialized_ /\ be'.model_loads = be.model_loads + 1)]_vars
    /\ [][(op'.name = "initializeModel" /\ be.initialized_)
            => (out'.ok /\ be' = [be EXCEPT !.calls = @ + 1])]_vars
    /\ [](op.name \in {"cleanup", "~LlamaCppBackend"}
            => (~be.model_ /\ ~be.ctx_ /\ ~be.initialized_ /\ be.held = 0))
    /\ [][(op.name = "cleanup" /\ op'.name = "cleanup") => be' = be]_vars

C25_Witness ==
    /\ IsInstance
    /\ op.name = "cleanup"
    /\ op.args.again
    /\ be.model_loads >= 1
    /\ be.backend_frees >= 1

\* C28: over any sequence of generate() calls on one instance the context is
\* never asked to hold more tokens than the configured context size: the
\* prompt-fit test and the context-limit test count the tokens the context
\* already holds from earlier calls.
C28_ContextIsNeverOverfilled ==
    IsInstance => be.asked <= be.n_ctx

\* C29: every llama_backend_init is matched by exactly one later
\* llama_backend_free, over any sequence of model loads (failed ones
\* included) followed by destruction.
C29_BackendInitIsMatchedByFree ==
    /\ IsInstance => be.backend_frees <= be.backend_inits
    /\ (IsInstance /\ be.pc = "destroyed")
          => be.backend_frees = be.backend_inits

====
